---- MODULE Spec2Model ----
(***************************************************************************)
(* Model of the task dashboard's deterministic core: the Role Resolver,    *)
(* the Sync Reconciler (POST /api/jira/sync-tasks and the                  *)
(* create_jira_from_test_tasks script), the seeder, the Allocation         *)
(* Transform (smart-allocate routes) and the Cost/Metrics Aggregator       *)
(* (finance routes).                                                       *)
(*                                                                         *)
(* Representation of JavaScript values:                                    *)
(*   - a role string is a sequence of one-character strings, so that       *)
(*     toLowerCase acts on characters; null and undefined are one-element  *)
(*     sequences holding a marker that is no character;                    *)
(*   - null/absent store fields are the empty tuple NULL;                  *)
(*   - a Jira key is a tuple <<project, number>>.                          *)
(***************************************************************************)
EXTENDS Integers, Sequences, FiniteSets, TLC

VARIABLES
    store,      \* the tasks collection, in insertion (natural) order
    jira,       \* the external tracker: issues created so far, in creation order
    run,        \* per process: the reconciler run it executes (locals of the handler)
    env,        \* process.env: which Jira settings are set
    schema,     \* the Task schema: what synced_to_jira is when a writer leaves it out
    counts,     \* how many runs, seeder executions and imports have happened
    prev,       \* history: the run completed before the current one started
    roleCall,   \* one call of mapRoleToTeamMember: variant, argument, result
    users,      \* the users collection read and written by the smart-allocate routes
    employees,  \* the last response of GET /api/smart-allocate/employees
    fin,        \* one request to a finance endpoint: store content, query, response
    db,         \* the collections the seeder and the imports write, and their history
    fetch       \* the two bulk-fetch pagination loops: their locals and what they asked for

vars == <<store, jira, run, env, schema, counts, prev, roleCall, users, employees, fin, db, fetch>>

\* the variables of the pure-function specifications
pureVars == <<roleCall, users, employees, fin, db, fetch>>

NULL == <<>>

NoFetch == [pc |-> "none"]

\* no document in any collection, no seeder or import run yet
EmptyDb ==
    [users |-> <<>>, commits |-> <<>>, issues |-> <<>>, allocationRuns |-> <<>>,
     github |-> <<>>, jiraData |-> <<>>, ops |-> 0, faults |-> 0,
     last |-> [op |-> "none", input |-> <<>>, sizes |-> <<>>, failed |-> FALSE],
     rerun |-> [op |-> "none", before |-> <<>>, after |-> <<>>, firstFailed |-> FALSE]]

(***************************************************************************)
(* Strings                                                                 *)
(***************************************************************************)
UpperChars == <<"A","B","C","D","E","F","G","H","I","J","K","L","M",
                "N","O","P","Q","R","S","T","U","V","W","X","Y","Z">>

LowerChars == <<"a","b","c","d","e","f","g","h","i","j","k","l","m",
                "n","o","p","q","r","s","t","u","v","w","x","y","z">>

toLowerCaseChar(c) ==
    IF \E i \in 1..Len(UpperChars) : UpperChars[i] = c
    THEN LowerChars[CHOOSE i \in 1..Len(UpperChars) : UpperChars[i] = c]
    ELSE c

\* String.prototype.toLowerCase
toLowerCase(s) == [i \in 1..Len(s) |-> toLowerCaseChar(s[i])]

JsNull == <<"null">>

JsUndefined == <<"undefined">>

IsNullish(v) == v = JsNull \/ v = JsUndefined

(***************************************************************************)
(* Role Resolver: mapRoleToTeamMember, three copies with their own tables  *)
(***************************************************************************)
\* create_jira_from_test_tasks.js and create_jira_from_json.js
TEAM_script ==
    << [name |-> "Aryan",  accountId |-> "712020:f4133ad3-9b22-491e-8260-37d3ce9dcf04", role |-> "frontend"],
       [name |-> "Ritwik", accountId |-> "712020:88eb9ecb-d9f0-40ee-a5d0-9cbe35c6ac8f", role |-> "backend"],
       [name |-> "Mohak",  accountId |-> "712020:27f806c7-3623-4153-bb5b-0f60bb121dec", role |-> "devops"],
       [name |-> "Manu",   accountId |-> "712020:a0876b3e-cc7b-403e-8aac-a8929a1c080e", role |-> "qa"] >>

\* routes/jira.js
TEAM_route ==
    << [name |-> "Aryan",  accountId |-> "712020:f4133ad3-9b22-491e-8260-37d3ce9dcf04", role |-> "AWS Solutions Architect"],
       [name |-> "Ritwik", accountId |-> "712020:88eb9ecb-d9f0-40ee-a5d0-9cbe35c6ac8f", role |-> "AWS Backend Developer"],
       [name |-> "Mohak",  accountId |-> "712020:27f806c7-3623-4153-bb5b-0f60bb121dec", role |-> "AWS DevOps Engineer"],
       [name |-> "Manu",   accountId |-> "712020:a0876b3e-cc7b-403e-8aac-a8929a1c080e", role |-> "AWS Cloud Engineer"] >>

\* The value of an expression that evaluates to undefined where a roster
\* entry is expected (Array.prototype.find without a match).
UndefinedMember == [name |-> "undefined", accountId |-> "undefined", role |-> "undefined"]

roleMapScript ==
    { <<<<"f","r","o","n","t","e","n","d">>, "Aryan">>,
      <<<<"s","e","n","i","o","r"," ","f","r","o","n","t","e","n","d"," ","d","e","v","e","l","o","p","e","r">>, "Aryan">>,
      <<<<"f","r","o","n","t","e","n","d"," ","d","e","v","e","l","o","p","e","r">>, "Aryan">>,
      <<<<"b","a","c","k","e","n","d">>, "Ritwik">>,
      <<<<"b","a","c","k","e","n","d"," ","e","n","g","i","n","e","e","r">>, "Ritwik">>,
      <<<<"b","a","c","k","e","n","d"," ","d","e","v","e","l","o","p","e","r">>, "Ritwik">>,
      <<<<"d","e","v","o","p","s">>, "Mohak">>,
      <<<<"d","e","v","o","p","s"," ","e","n","g","i","n","e","e","r">>, "Mohak">>,
      <<<<"q","a">>, "Manu">>,
      <<<<"q","a"," ","e","n","g","i","n","e","e","r">>, "Manu">>,
      <<<<"t","e","s","t","e","r">>, "Manu">>,
      <<<<"m","a","r","k","e","t","i","n","g"," ","m","a","n","a","g","e","r">>, "Aryan">>,
      <<<<"s","o","c","i","a","l"," ","m","e","d","i","a"," ","s","p","e","c","i","a","l","i","s","t">>, "Ritwik">>,
      <<<<"d","i","g","i","t","a","l"," ","m","a","r","k","e","t","e","r">>, "Mohak">>,
      <<<<"s","e","n","i","o","r"," ","e","d","i","t","o","r">>, "Manu">> }

roleMapRoute ==
    { <<<<"a","w","s"," ","s","o","l","u","t","i","o","n","s"," ","a","r","c","h","i","t","e","c","t">>, "Aryan">>,
      <<<<"a","w","s"," ","a","r","c","h","i","t","e","c","t">>, "Aryan">>,
      <<<<"s","o","l","u","t","i","o","n","s"," ","a","r","c","h","i","t","e","c","t">>, "Aryan">>,
      <<<<"c","l","o","u","d"," ","a","r","c","h","i","t","e","c","t">>, "Aryan">>,
      <<<<"a","w","s"," ","b","a","c","k","e","n","d"," ","d","e","v","e","l","o","p","e","r">>, "Ritwik">>,
      <<<<"b","a","c","k","e","n","d"," ","d","e","v","e","l","o","p","e","r">>, "Ritwik">>,
      <<<<"b","a","c","k","e","n","d"," ","e","n","g","i","n","e","e","r">>, "Ritwik">>,
      <<<<"a","w","s"," ","d","e","v","e","l","o","p","e","r">>, "Ritwik">>,
      <<<<"b","a","c","k","e","n","d">>, "Ritwik">>,
      <<<<"a","w","s"," ","d","e","v","o","p","s"," ","e","n","g","i","n","e","e","r">>, "Mohak">>,
      <<<<"d","e","v","o","p","s"," ","e","n","g","i","n","e","e","r">>, "Mohak">>,
      <<<<"d","e","v","o","p","s">>, "Mohak">>,
      <<<<"c","l","o","u","d"," ","d","e","v","o","p","s">>, "Mohak">>,
      <<<<"a","w","s"," ","c","l","o","u","d"," ","e","n","g","i","n","e","e","r">>, "Manu">>,
      <<<<"c","l","o","u","d"," ","e","n","g","i","n","e","e","r">>, "Manu">>,
      <<<<"i","n","f","r","a","s","t","r","u","c","t","u","r","e"," ","e","n","g","i","n","e","e","r">>, "Manu">>,
      <<<<"s","r","e">>, "Manu">>,
      <<<<"a","w","s">>, "Aryan">>,
      <<<<"f","r","o","n","t","e","n","d">>, "Aryan">>,
      <<<<"q","a">>, "Manu">> }

roleMapJson ==
    { <<<<"f","r","o","n","t","e","n","d">>, "Aryan">>,
      <<<<"s","e","n","i","o","r"," ","f","r","o","n","t","e","n","d"," ","d","e","v","e","l","o","p","e","r">>, "Aryan">>,
      <<<<"f","r","o","n","t","e","n","d"," ","d","e","v","e","l","o","p","e","r">>, "Aryan">>,
      <<<<"b","a","c","k","e","n","d">>, "Ritwik">>,
      <<<<"b","a","c","k","e","n","d"," ","e","n","g","i","n","e","e","r">>, "Ritwik">>,
      <<<<"b","a","c","k","e","n","d"," ","d","e","v","e","l","o","p","e","r">>, "Ritwik">>,
      <<<<"d","e","v","o","p","s">>, "Mohak">>,
      <<<<"d","e","v","o","p","s"," ","e","n","g","i","n","e","e","r">>, "Mohak">>,
      <<<<"q","a">>, "Manu">>,
      <<<<"q","a"," ","e","n","g","i","n","e","e","r">>, "Manu">>,
      <<<<"t","e","s","t","e","r">>, "Manu">> }

Variants == {"script", "route", "json"}

TEAM(variant) == IF variant = "route" THEN TEAM_route ELSE TEAM_script

roleMap(variant) ==
    CASE variant = "script" -> roleMapScript
      [] variant = "route"  -> roleMapRoute
      [] OTHER              -> roleMapJson

\* roleMap is an object literal, so a property read also finds the
\* properties it inherits from Object.prototype.  After toLowerCase only the
\* all-lowercase names among them can be asked for.
ObjectPrototypeKeys ==
    { <<"c","o","n","s","t","r","u","c","t","o","r">>,
      <<"_","_","p","r","o","t","o","_","_">> }

\* roleRequired?.toLowerCase() || ''
normalizeRole(roleRequired) ==
    IF IsNullish(roleRequired) THEN <<>> ELSE toLowerCase(roleRequired)

\* roleMap[normalizedRole]: the configured name, a truthy inherited value
\* that is no name, or undefined
lookupRole(variant, normalizedRole) ==
    IF \E e \in roleMap(variant) : e[1] = normalizedRole
    THEN (CHOOSE e \in roleMap(variant) : e[1] = normalizedRole)[2]
    ELSE IF normalizedRole \in ObjectPrototypeKeys THEN "[inherited]"
    ELSE "undefined"

\* TEAM.find(m => m.name === memberName)
findMember(variant, memberName) ==
    IF \E i \in 1..Len(TEAM(variant)) : TEAM(variant)[i].name = memberName
    THEN TEAM(variant)[CHOOSE i \in 1..Len(TEAM(variant)) :
                          /\ TEAM(variant)[i].name = memberName
                          /\ \A j \in 1..(i-1) : TEAM(variant)[j].name # memberName]
    ELSE UndefinedMember

\* TEAM[Math.floor(Math.random() * TEAM.length)]: Math.random() is in [0,1)
randomMember(variant) == { TEAM(variant)[i] : i \in 1..Len(TEAM(variant)) }

\* The set of values one call can return.
mapRoleToTeamMember(variant, roleRequired) ==
    LET memberName == lookupRole(variant, normalizeRole(roleRequired))
    IN  IF memberName # "undefined"
        THEN { findMember(variant, memberName) }
        ELSE randomMember(variant)

(***************************************************************************)
(* Store, tracker and seeder                                               *)
(***************************************************************************)
MaxRuns == 2

MaxImports == 1

MaxFaults == 1

Procs == {1, 2}

Str_backend == <<"b","a","c","k","e","n","d">>

Str_frontend == <<"f","r","o","n","t","e","n","d">>

Str_devops == <<"d","e","v","o","p","s">>

Str_qa == <<"q","a">>

Str_designer == <<"d","e","s","i","g","n","e","r">>

\* The value a new Task document gets for synced_to_jira when the writer
\* does not set it: the schema default false, or no field at all.
SyncedDefault == {"false", "absent"}

\* tasksData of the seeder; deadline in days from now
tasksData ==
    << [task_id |-> <<"TASK", 1001>>, role_required |-> Str_backend,  deadline |-> 7,
        status |-> "in_progress", jira_issue_key |-> <<"PROJ", 101>>],
       [task_id |-> <<"TASK", 1002>>, role_required |-> Str_frontend, deadline |-> 3,
        status |-> "done",        jira_issue_key |-> <<"PROJ", 102>>],
       [task_id |-> <<"TASK", 1003>>, role_required |-> Str_devops,   deadline |-> -2,
        status |-> "pending",     jira_issue_key |-> <<"PROJ", 103>>],
       [task_id |-> <<"TASK", 1004>>, role_required |-> Str_qa,       deadline |-> -5,
        status |-> "in_progress", jira_issue_key |-> <<"PROJ", 104>>],
       [task_id |-> <<"TASK", 1005>>, role_required |-> Str_backend,  deadline |-> 10,
        status |-> "pending",     jira_issue_key |-> <<"PROJ", 105>>] >>

IndexOf(coll, task_id) ==
    IF \E i \in 1..Len(coll) : coll[i].task_id = task_id
    THEN CHOOSE i \in 1..Len(coll) : coll[i].task_id = task_id
    ELSE 0

\* Task.findOneAndUpdate({ task_id }, { $set: taskData }, { upsert: true }):
\* the fields of taskData are set, every other field of a matching document
\* is kept, and a missing document is inserted with the remaining fields at
\* their defaults.
upsertTask(coll, taskData, syncedDefault) ==
    LET i == IndexOf(coll, taskData.task_id)
    IN  IF i > 0
        THEN [coll EXCEPT ![i] = [@ EXCEPT !.role_required = taskData.role_required,
                                           !.deadline = taskData.deadline,
                                           !.status = taskData.status,
                                           !.jira_issue_key = taskData.jira_issue_key]]
        ELSE Append(coll, [task_id |-> taskData.task_id,
                           role_required |-> taskData.role_required,
                           deadline |-> taskData.deadline,
                           status |-> taskData.status,
                           jira_issue_key |-> taskData.jira_issue_key,
                           jira_issue_id |-> NULL,
                           synced_to_jira |-> syncedDefault])

RECURSIVE upsertAll(_, _, _, _)
\* for (const taskData of tasksData) await Task.findOneAndUpdate(...)
upsertAll(coll, data, k, syncedDefault) ==
    IF k > Len(data) THEN coll
    ELSE upsertAll(upsertTask(coll, data[k], syncedDefault), data, k + 1, syncedDefault)

NoRunActive == \A p \in Procs : run[p].pc \in {"idle", "done"}

\* node seeder.js
runSeed ==
    /\ NoRunActive
    /\ store' = upsertAll(store, tasksData, 1, schema.synced_to_jira)
    /\ prev' = [prev EXCEPT !.dirty = TRUE]
    /\ UNCHANGED <<jira, run, env, schema, counts, pureVars>>

\* What an import can bring: a role the tables know and one they do not, a
\* deadline between the seeded ones and one equal to a seeded one.
ImportedTasks ==
    { [role_required |-> Str_qa,       deadline |-> 5],
      [role_required |-> Str_designer, deadline |-> -2] }

\* A work item is created on import: status at the import default, no
\* tracker linkage, not synced.
importTask ==
    /\ NoRunActive
    /\ counts.imports < MaxImports
    /\ \E t \in ImportedTasks :
          store' = Append(store, [task_id |-> <<"IMP", counts.imports + 1>>,
                                  role_required |-> t.role_required,
                                  deadline |-> t.deadline,
                                  status |-> "pending",
                                  jira_issue_key |-> NULL,
                                  jira_issue_id |-> NULL,
                                  synced_to_jira |-> schema.synced_to_jira])
    /\ counts' = [counts EXCEPT !.imports = @ + 1]
    /\ prev' = [prev EXCEPT !.dirty = TRUE]
    /\ UNCHANGED <<jira, run, env, schema, pureVars>>

(***************************************************************************)
(* Sync Reconciler                                                         *)
(***************************************************************************)
IdleRun ==
    [kind |-> "none", pc |-> "idle", tasks |-> <<>>, idx |-> 1,
     total |-> 0, created |-> 0, skipped |-> 0, failed |-> 0, tickets |-> <<>>,
     assignee |-> UndefinedMember, issue |-> NULL, resp |-> "none",
     calls |-> 0, atStart |-> [noKey |-> 0, keyed |-> 0]]

RECURSIVE AnyOrders(_)
\* Mutant: the query is not sorted.
AnyOrders(S) ==
    IF S = {} THEN { <<>> }
    ELSE UNION { { <<m>> \o t : t \in AnyOrders(S \ {m}) } : m \in S }

RECURSIVE SortedOrders(_)
\* .sort({ deadline: 1 }): ascending deadline; the order of documents with
\* equal deadlines is not specified
SortedOrders(S) ==
    IF S = {} THEN { <<>> }
    ELSE UNION { { <<m>> \o t : t \in SortedOrders(S \ {m}) } :
                 m \in { x \in S : \A y \in S : x.deadline <= y.deadline } }

\* Mutant: the query forgets the items without the flag.
pendingUnsynced_FalseOnly(coll) ==
    { coll[i] : i \in { j \in 1..Len(coll) :
                          coll[j].status = "pending" /\ coll[j].synced_to_jira = "false" } }

\* Task.find({ status: 'pending', $or: [{ synced_to_jira: false },
\*                                      { synced_to_jira: { $exists: false } }] })
pendingUnsynced(coll) ==
    { coll[i] : i \in { j \in 1..Len(coll) :
                          /\ coll[j].status = "pending"
                          /\ coll[j].synced_to_jira \in {"false", "absent"} } }

ConfigComplete == env.JIRA_BASE_URL = "set" /\ env.JIRA_EMAIL = "set" /\ env.JIRA_API_TOKEN = "set"

\* History kept for the claims: the run that completed before this one
\* starts, and whether the store was written in between.
Remember(p) ==
    [kind |-> run[p].kind, created |-> run[p].created, failed |-> run[p].failed,
     resp |-> run[p].resp, clean |-> ~prev.dirty, dirty |-> FALSE]

\* History kept for the claims: how many work items carry an external key,
\* and how many do not, when a run starts.
CountAtStart(coll) ==
    [noKey |-> Cardinality({ i \in 1..Len(coll) : coll[i].jira_issue_key = NULL }),
     keyed |-> Cardinality({ i \in 1..Len(coll) : coll[i].jira_issue_key # NULL })]

NewRun(kind) == [IdleRun EXCEPT !.kind = kind, !.atStart = CountAtStart(store)]

\* Mutant: the handler does not look at its settings.
StartRoute_NoCheck(p) ==
    /\ run[p].pc \in {"idle", "done"}
    /\ counts.runs < MaxRuns
    /\ counts' = [counts EXCEPT !.runs = @ + 1]
    /\ prev' = Remember(p)
    /\ \E tasks \in SortedOrders(pendingUnsynced(store)) :
          run' = [run EXCEPT ![p] = [NewRun("route") EXCEPT !.pc = "loop",
                                                    !.tasks = tasks, !.total = Len(tasks)]]
    /\ UNCHANGED <<store, jira, env, schema, pureVars>>

\* POST /sync-tasks up to the query
StartRoute(p) ==
    /\ run[p].pc \in {"idle", "done"}
    /\ counts.runs < MaxRuns
    /\ counts' = [counts EXCEPT !.runs = @ + 1]
    /\ prev' = Remember(p)
    /\ IF env.JIRA_BASE_URL = "missing"
       THEN \* process.env.JIRA_BASE_URL.replace throws; the outer catch answers
            run' = [run EXCEPT ![p] = [NewRun("route") EXCEPT !.pc = "done", !.resp = "500"]]
       ELSE IF env.JIRA_EMAIL = "missing" \/ env.JIRA_API_TOKEN = "missing"
       THEN run' = [run EXCEPT ![p] = [NewRun("route") EXCEPT !.pc = "done", !.resp = "400"]]
       ELSE \E tasks \in SortedOrders(pendingUnsynced(store)) :
               run' = [run EXCEPT ![p] = [NewRun("route") EXCEPT !.pc = "loop",
                                                         !.tasks = tasks, !.total = Len(tasks)]]
    /\ UNCHANGED <<store, jira, env, schema, pureVars>>

\* main() of create_jira_from_test_tasks.js up to the loop
StartScript(p) ==
    /\ run[p].pc \in {"idle", "done"}
    /\ counts.runs < MaxRuns
    /\ counts' = [counts EXCEPT !.runs = @ + 1]
    /\ prev' = Remember(p)
    /\ run' = [run EXCEPT ![p] = [NewRun("script") EXCEPT
                                                 !.pc = IF Len(store) = 0 THEN "done" ELSE "loop",
                                                 !.resp = IF Len(store) = 0 THEN "exit" ELSE "none",
                                                 !.tasks = store, !.total = Len(store)]]
    /\ UNCHANGED <<store, jira, env, schema, pureVars>>

CurrentTask(p) == run[p].tasks[run[p].idx]

\* Mutant: the skip test is missing.
AlreadySynced_Never(kind, task) == FALSE

\* The skip test at the head of the loop body.
AlreadySynced(kind, task) ==
    IF kind = "route"
    THEN task.synced_to_jira = "true" /\ task.jira_issue_key # NULL
    ELSE task.jira_issue_key # NULL

\* skipped++; continue
SkipTask(p) ==
    /\ run[p].pc = "loop"
    /\ run[p].idx <= Len(run[p].tasks)
    /\ AlreadySynced(run[p].kind, CurrentTask(p))
    /\ run' = [run EXCEPT ![p].skipped = @ + 1, ![p].idx = @ + 1]
    /\ UNCHANGED <<store, jira, env, schema, counts, prev, pureVars>>

ErrorTicket(task, assignee) ==
    [task_id |-> task.task_id, jira_key |-> NULL, assignee |-> assignee.name, error |-> TRUE]

CreatedTicket(task, assignee, issue) ==
    [task_id |-> task.task_id, jira_key |-> issue.key, assignee |-> assignee.name, error |-> FALSE]

\* Mutant: the failure is rethrown and ends the handler.
CatchItem_Abort(r, assignee) ==
    [r EXCEPT !.failed = @ + 1, !.issue = NULL, !.assignee = UndefinedMember,
              !.pc = "done", !.resp = "500"]

\* Mutant: the failed item is tried again.
CatchItem_Retry(r, assignee) ==
    [r EXCEPT !.failed = @ + 1, !.issue = NULL, !.assignee = UndefinedMember, !.pc = "loop"]

\* The catch block of the loop body: count the failure and go on with the
\* next task.  Only the route keeps a ticket list.
CatchItem(r, assignee) ==
    [r EXCEPT !.failed = @ + 1,
              !.tickets = IF r.kind = "route"
                          THEN Append(@, ErrorTicket(r.tasks[r.idx], assignee))
                          ELSE @,
              !.issue = NULL,
              !.assignee = UndefinedMember,
              !.pc = "loop",
              !.idx = @ + 1]

\* The issue the tracker answers a successful create call with.
NewIssue(p) ==
    [key |-> <<"SCRUM", Len(jira) + 1>>, id |-> <<"id", 10000 + Len(jira)>>,
     task_id |-> CurrentTask(p).task_id, recorded |-> 0]

\* mapRoleToTeamMember, then createJiraIssue: one axios.post, which either
\* answers with the new issue or throws
CreateIssue(p) ==
    /\ run[p].pc = "loop"
    /\ run[p].idx <= Len(run[p].tasks)
    /\ ~AlreadySynced(run[p].kind, CurrentTask(p))
    /\ \E assignee \in mapRoleToTeamMember(run[p].kind, CurrentTask(p).role_required) :
         LET called == [run[p] EXCEPT !.calls = @ + 1,
                                      !.assignee = assignee]
         IN  \/ /\ ConfigComplete
                /\ jira' = Append(jira, NewIssue(p))
                /\ run' = [run EXCEPT ![p] = [called EXCEPT !.issue = NewIssue(p), !.pc = "created"]]
                /\ counts' = counts
             \/ \* the call throws: the settings are wrong, or the tracker refuses
                /\ ~ConfigComplete \/ counts.faults < MaxFaults
                /\ jira' = jira
                /\ run' = [run EXCEPT ![p] = CatchItem(called, assignee)]
                /\ counts' = IF ConfigComplete THEN [counts EXCEPT !.faults = @ + 1] ELSE counts
    /\ UNCHANGED <<store, env, schema, prev, pureVars>>

\* Mutant: the update moves the status and forgets the tracker linkage.
writeBack_NoLinkage(coll, task_id, issue) ==
    LET i == IndexOf(coll, task_id)
    IN  IF i = 0 THEN coll
        ELSE [coll EXCEPT ![i] = [@ EXCEPT !.status = "allocated"]]

\* Mutant: the update is conditional on the item still being unlinked.
writeBack_IfUnset(coll, task_id, issue) ==
    LET i == IndexOf(coll, task_id)
    IN  IF i = 0 \/ coll[i].jira_issue_key # NULL THEN coll
        ELSE [coll EXCEPT ![i] = [@ EXCEPT !.jira_issue_key = issue.key,
                                           !.jira_issue_id = issue.id,
                                           !.synced_to_jira = "true",
                                           !.status = "allocated"]]

\* Mutant: the update records the linkage and leaves the status.
writeBack_KeepStatus(coll, task_id, issue) ==
    LET i == IndexOf(coll, task_id)
    IN  IF i = 0 THEN coll
        ELSE [coll EXCEPT ![i] = [@ EXCEPT !.jira_issue_key = issue.key,
                                           !.jira_issue_id = issue.id,
                                           !.synced_to_jira = "true"]]

\* Task.findByIdAndUpdate(task._id, {...}) / tasksCollection.updateOne({ _id }, { $set: {...} })
writeBack(coll, task_id, issue) ==
    LET i == IndexOf(coll, task_id)
    IN  IF i = 0 THEN coll
        ELSE [coll EXCEPT ![i] = [@ EXCEPT !.jira_issue_key = issue.key,
                                           !.jira_issue_id = issue.id,
                                           !.synced_to_jira = "true",
                                           !.status = "allocated"]]

\* History kept for the claims: which issues were written back to the
\* store, numbered in the order of the write-backs (0: not written back).
MarkRecorded(issues, key) ==
    LET n == Cardinality({ i \in 1..Len(issues) : issues[i].recorded > 0 })
    IN  [i \in 1..Len(issues) |-> IF issues[i].key = key
                                  THEN [issues[i] EXCEPT !.recorded = n + 1]
                                  ELSE issues[i]]

\* Mutant: the item is counted and leaves no ticket.
AfterCreate_NoTicket(r) ==
    [r EXCEPT !.created = @ + 1, !.issue = NULL, !.assignee = UndefinedMember,
              !.pc = "loop", !.idx = @ + 1]

\* The rest of the try block after the create call answered: the store
\* update, then created++ and (route) the ticket
AfterCreate(r) ==
    [r EXCEPT !.created = @ + 1,
              !.tickets = IF r.kind = "route"
                          THEN Append(@, CreatedTicket(r.tasks[r.idx], r.assignee, r.issue))
                          ELSE @,
              !.issue = NULL,
              !.assignee = UndefinedMember,
              !.pc = "loop",
              !.idx = @ + 1]

\* Mutant: a failed update is compensated by deleting the issue.
WriteBack_Compensate(p) ==
    /\ run[p].pc = "created"
    /\ \/ /\ store' = writeBack(store, CurrentTask(p).task_id, run[p].issue)
          /\ jira' = MarkRecorded(jira, run[p].issue.key)
          /\ run' = [run EXCEPT ![p] = AfterCreate(run[p])]
          /\ counts' = counts
       \/ /\ counts.faults < MaxFaults
          /\ counts' = [counts EXCEPT !.faults = @ + 1]
          /\ run' = [run EXCEPT ![p] = CatchItem(run[p], run[p].assignee)]
          /\ jira' = SelectSeq(jira, LAMBDA issue : issue.key # run[p].issue.key)
          /\ store' = store
    /\ UNCHANGED <<env, schema, prev, pureVars>>

WriteBack(p) ==
    /\ run[p].pc = "created"
    /\ \/ /\ store' = writeBack(store, CurrentTask(p).task_id, run[p].issue)
          /\ jira' = MarkRecorded(jira, run[p].issue.key)
          /\ run' = [run EXCEPT ![p] = AfterCreate(run[p])]
          /\ counts' = counts
       \/ \* the update throws
          /\ counts.faults < MaxFaults
          /\ counts' = [counts EXCEPT !.faults = @ + 1]
          /\ run' = [run EXCEPT ![p] = CatchItem(run[p], run[p].assignee)]
          /\ UNCHANGED <<store, jira>>
    /\ UNCHANGED <<env, schema, prev, pureVars>>

\* res.json({ success: true, ... }) / the execution summary: the handler
\* returns and its locals are gone; the counters it reported are kept
Respond(p) ==
    /\ run[p].pc = "loop"
    /\ run[p].idx > Len(run[p].tasks)
    /\ run' = [run EXCEPT ![p].pc = "done", ![p].resp = "ok",
                          ![p].tasks = <<>>, ![p].tickets = <<>>, ![p].idx = 1]
    /\ UNCHANGED <<store, jira, env, schema, counts, prev, pureVars>>

(***************************************************************************)
(* Specifications of the reconciler                                        *)
(***************************************************************************)
EnvSettings ==
    { [JIRA_BASE_URL |-> "set",     JIRA_EMAIL |-> "set",     JIRA_API_TOKEN |-> "set"],
      [JIRA_BASE_URL |-> "missing", JIRA_EMAIL |-> "set",     JIRA_API_TOKEN |-> "set"],
      [JIRA_BASE_URL |-> "set",     JIRA_EMAIL |-> "missing", JIRA_API_TOKEN |-> "set"],
      [JIRA_BASE_URL |-> "set",     JIRA_EMAIL |-> "set",     JIRA_API_TOKEN |-> "missing"] }

NoRoleCall == [pc |-> "none", variant |-> "none", roleRequired |-> JsNull, result |-> UndefinedMember]

NoFin == [pc |-> "none"]

InitSync ==
    /\ store = <<>>
    /\ jira = <<>>
    /\ run = [p \in Procs |-> IdleRun]
    /\ env \in EnvSettings
    /\ schema \in { [synced_to_jira |-> d] : d \in SyncedDefault }
    /\ counts = [runs |-> 0, imports |-> 0, faults |-> 0]
    /\ prev = [kind |-> "none", created |-> 0, failed |-> 0, resp |-> "none", clean |-> FALSE, dirty |-> FALSE]
    /\ roleCall = NoRoleCall
    /\ users = <<>>
    /\ employees = [response |-> <<>>, atGet |-> <<>>, request |-> [pc |-> "none"]]
    /\ db = EmptyDb
    /\ fetch = NoFetch
    /\ fin = NoFin

\* Runs one after another: a run starts only when no run is in progress.
Next ==
    \/ runSeed
    \/ importTask
    \/ NoRunActive /\ StartRoute(1)
    \/ NoRunActive /\ StartScript(1)
    \/ SkipTask(1)
    \/ CreateIssue(1)
    \/ WriteBack(1)
    \/ Respond(1)

Spec == InitSync /\ [][Next]_vars

\* Two runs, one per process, that may overlap: a handler runs until its
\* next await, then any handler may go on.
NextConc ==
    \/ importTask
    \/ \E p \in Procs :
          \/ run[p].pc = "idle" /\ StartRoute(p)
          \/ run[p].pc = "idle" /\ StartScript(p)
          \/ SkipTask(p)
          \/ CreateIssue(p)
          \/ WriteBack(p)
          \/ Respond(p)

ConcSpec == InitSync /\ [][NextConc]_vars

(***************************************************************************)
(* Claims about the Sync Reconciler                                        *)
(***************************************************************************)
\* C1 (as stated): whatever the create calls and write-backs do, runs
\* executed one after another never create two external issues for the same
\* work item.
C1_AtMostOneIssuePerItem ==
    \A i, j \in 1..Len(jira) : jira[i].task_id = jira[j].task_id => i = j

\* C1 (amended): once an external issue has been created for a work item and
\* written back to the store, no later run creates another issue for that
\* item; only an issue whose write-back failed can be followed by another.
C1_NoCreateAfterRecorded ==
    \A i, j \in 1..Len(jira) :
        (i < j /\ jira[i].task_id = jira[j].task_id) => jira[i].recorded = 0

\* A second run has completed over an item whose single issue was recorded.
C1_Witness ==
    /\ counts.runs = 2
    /\ run[1].pc = "done" /\ run[1].resp = "ok"
    /\ \E i \in 1..Len(jira) :
          /\ jira[i].recorded > 0
          /\ \A j \in 1..Len(jira) : jira[j].task_id = jira[i].task_id => j = i

C3_SyncedIffKey ==
    \A i \in 1..Len(store) :
        (store[i].synced_to_jira = "true") <=> (store[i].jira_issue_key # NULL)

\* C4: an item of the run's selection that carries an external key when the
\* run starts is counted as skipped, and no create call is issued for it.
C4_KeyedItemIsSkipped ==
    [][\A p \in Procs :
          ( /\ run[p].pc = "loop"
            /\ run[p].idx <= Len(run[p].tasks)
            /\ CurrentTask(p).jira_issue_key # NULL
            /\ run'[p] # run[p] )
          => ( /\ run'[p].skipped = run[p].skipped + 1
               /\ run'[p].calls = run[p].calls )]_vars

\* C5: a run without a failure over a store with n items without a key and
\* m items with one reports created = n, skipped = m, failed = 0.
C5_CountsMatchStore ==
    \A p \in Procs :
        (run[p].pc = "done" /\ run[p].resp = "ok" /\ run[p].failed = 0)
            => ( /\ run[p].created = run[p].atStart.noKey
                 /\ run[p].skipped = run[p].atStart.keyed )

C7_LastWriteWins ==
    \A i \in 1..Len(jira) :
        ( /\ jira[i].recorded > 0
          /\ \A j \in 1..Len(jira) :
                jira[j].task_id = jira[i].task_id => jira[j].recorded <= jira[i].recorded )
        => store[IndexOf(store, jira[i].task_id)].jira_issue_key = jira[i].key

\* Two overlapping POST /sync-tasks runs each created an issue for the same work item and
\* wrote it back; the store keeps the later key, the earlier one is lost.
C7_Witness ==
    \E i, j \in 1..Len(jira) :
        /\ \A p \in Procs : run[p].kind = "route"
        /\ i # j
        /\ jira[i].task_id = jira[j].task_id
        /\ 0 < jira[i].recorded /\ jira[i].recorded < jira[j].recorded
        /\ store[IndexOf(store, jira[i].task_id)].jira_issue_key = jira[j].key


(***************************************************************************)
(* Role Resolver called on its own                                         *)
(***************************************************************************)
\* The reconciler at rest, for the specifications of the pure functions.
SyncAtRest ==
    /\ store = <<>>
    /\ jira = <<>>
    /\ run = [p \in Procs |-> IdleRun]
    /\ env = [JIRA_BASE_URL |-> "set", JIRA_EMAIL |-> "set", JIRA_API_TOKEN |-> "set"]
    /\ schema = [synced_to_jira |-> "absent"]
    /\ counts = [runs |-> 0, imports |-> 0, faults |-> 0]
    /\ prev = [kind |-> "none", created |-> 0, failed |-> 0, resp |-> "none",
               clean |-> FALSE, dirty |-> FALSE]

syncVars == <<store, jira, run, env, schema, counts, prev>>

TableKeys(variant) == { e[1] : e \in roleMap(variant) }

\* Arguments tried: every key of every table, keys in other letter case and
\* with blanks around them, the empty string, null, undefined, role names no
\* table knows, and names of properties every object inherits.
RoleArguments ==
    UNION { TableKeys(v) : v \in Variants }
    \cup { <<>>, JsNull, JsUndefined,
           <<"Q","A">>, <<"B","a","c","k","e","n","d">>, <<"D","E","V","O","P","S">>,
           <<" ","q","a">>, <<"q","a"," ">>, <<" ","b","a","c","k","e","n","d"," ">>,
           Str_designer, <<"p","r","o","d","u","c","t"," ","m","a","n","a","g","e","r">>,
           <<"c","o","n","s","t","r","u","c","t","o","r">>,
           <<"C","o","n","s","t","r","u","c","t","o","r">>,
           <<"_","_","p","r","o","t","o","_","_">>,
           <<"t","o","S","t","r","i","n","g">> }

InitRole ==
    /\ SyncAtRest
    /\ roleCall \in { [pc |-> "call", variant |-> v, roleRequired |-> r, result |-> UndefinedMember] :
                        v \in Variants, r \in RoleArguments }
    /\ users = <<>>
    /\ employees = [response |-> <<>>, atGet |-> <<>>, request |-> [pc |-> "none"]]
    /\ db = EmptyDb
    /\ fetch = NoFetch
    /\ fin = NoFin

\* One call: mapRoleToTeamMember(roleRequired) returns.
ResolveRole ==
    /\ roleCall.pc = "call"
    /\ \E m \in mapRoleToTeamMember(roleCall.variant, roleCall.roleRequired) :
          roleCall' = [roleCall EXCEPT !.pc = "returned", !.result = m]
    /\ UNCHANGED <<syncVars, db, fetch, users, employees, fin>>

NextRole == ResolveRole

RoleSpec == InitRole /\ [][NextRole]_vars

\* C8: for a role that is a key of the table the resolver returns the roster
\* entry the table configures, and for every other argument (the empty
\* string, null and undefined included) it returns a member of the roster,
\* never undefined.
C8_ResolverTotal ==
    roleCall.pc = "returned" =>
        LET team == TEAM(roleCall.variant)
            keyed == { e \in roleMap(roleCall.variant) : e[1] = roleCall.roleRequired }
        IN  /\ \E i \in 1..Len(team) : team[i] = roleCall.result
            /\ \A e \in keyed : roleCall.result.name = e[2]

(***************************************************************************)
(* Numbers: a JavaScript number is a fraction n/d (d > 0), NaN or an       *)
(* infinity                                                                *)
(***************************************************************************)
Num(n, d) == [t |-> "num", n |-> n, d |-> d]

Int2Num(i) == Num(i, 1)

NaN == [t |-> "NaN", n |-> 0, d |-> 1]

Infinity == [t |-> "Infinity", n |-> 0, d |-> 1]

NegInfinity == [t |-> "-Infinity", n |-> 0, d |-> 1]

IsFiniteNum(x) == x.t = "num"

\* a / b for two finite numbers: 0/0 is NaN, x/0 is an infinity
JsDiv(a, b) ==
    IF b.n = 0
    THEN (IF a.n = 0 THEN NaN ELSE IF a.n > 0 THEN Infinity ELSE NegInfinity)
    ELSE IF b.n > 0 THEN Num(a.n * b.d, a.d * b.n)
    ELSE Num(-(a.n * b.d), a.d * (-b.n))

JsMul(a, b) == Num(a.n * b.n, a.d * b.d)

JsAdd(a, b) == Num(a.n * b.d + b.n * a.d, a.d * b.d)

JsSub(a, b) == Num(a.n * b.d - b.n * a.d, a.d * b.d)

JsLess(a, b) == a.n * b.d < b.n * a.d

JsMax(a, b) == IF JsLess(a, b) THEN b ELSE a

JsMin(a, b) == IF JsLess(a, b) THEN a ELSE b

\* Math.floor and Math.round (halves go up) of a finite number, as integers
FloorInt(x) == x.n \div x.d

RoundInt(x) == (2 * x.n + x.d) \div (2 * x.d)

\* Math.round keeps NaN and the infinities
JsRound(x) == IF IsFiniteNum(x) THEN Int2Num(RoundInt(x)) ELSE x

\* Math.round(x * 10) / 10
JsRound1(x) == IF IsFiniteNum(x) THEN Num(RoundInt(Num(x.n * 10, x.d)), 10) ELSE x

(***************************************************************************)
(* Allocation Transform: routes/smartAllocate.js                           *)
(***************************************************************************)
maxSlots == 40

defaultFreeSlots == 20

defaultYears == 3

baseRate == 30

\* String.prototype.includes
includes(s, sub) ==
    \E i \in 1..(Len(s) - Len(sub) + 1) : SubSeq(s, i, i + Len(sub) - 1) = sub

\* A numeric field of a document is <<n>>, or NULL when the document has none.
\* value || fallback: an absent value and 0 are both falsy
OrElse(field, fallback) ==
    IF field = NULL \/ field = <<0>> THEN fallback ELSE field[1]

\* user.free_slots_per_week || 20
freeSlotsOf(user) == OrElse(user.free_slots_per_week, defaultFreeSlots)

\* Math.max(0, Math.min(1, 1 - (freeSlots / maxSlots)))
workloadScore(user) ==
    JsMax(Int2Num(0),
          JsMin(Int2Num(1), JsSub(Int2Num(1), JsDiv(Int2Num(freeSlotsOf(user)), Int2Num(maxSlots)))))

\* user.years_of_experience || 3
yearsOf(user) == OrElse(user.years_of_experience, defaultYears)

seniorityOf(years) ==
    IF years >= 10 THEN "Lead"
    ELSE IF years >= 6 THEN "Senior"
    ELSE IF years <= 2 THEN "Junior"
    ELSE "Mid"

roleBonus(user) ==
    IF /\ user.role # NULL
       /\ Len(user.role) > 0
       /\ \/ includes(toLowerCase(user.role), <<"l","e","a","d">>)
          \/ includes(toLowerCase(user.role), <<"m","a","n","a","g","e","r">>)
          \/ includes(toLowerCase(user.role), <<"s","e","n","i","o","r">>)
    THEN 20 ELSE 0

\* One element of the response of GET /employees (the fields computed from
\* numbers and categories; name, avatar and tech_stack are copied text).
formatEmployee(user) ==
    [id |-> user.id,
     availability |-> (user.availability # "Busy"),
     hours_per_week |-> OrElse(user.capacity_hours_per_sprint, 40),
     workload |-> [active_tickets |-> FloorInt(JsMul(workloadScore(user), Int2Num(5))),
                   computed_score |-> workloadScore(user)],
     seniority |-> seniorityOf(yearsOf(user)),
     stress |-> JsMul(workloadScore(user), Num(6, 10)),
     cost_per_hour |-> baseRate + yearsOf(user) * 3 + roleBonus(user),
     experience |-> yearsOf(user)]

\* router.get('/employees')
GetEmployees ==
    /\ employees' = [response |-> [i \in 1..Len(users) |-> formatEmployee(users[i])],
                     atGet |-> users,
                     request |-> [pc |-> "none"]]
    /\ UNCHANGED <<syncVars, db, fetch, roleCall, users, fin>>

\* Math.round((1 - workload) * 40)
freeSlotsFromWorkload(workload) ==
    RoundInt(JsMul(JsSub(Int2Num(1), workload), Int2Num(40)))

UserIndex(id) ==
    IF \E i \in 1..Len(users) : users[i].id = id
    THEN CHOOSE i \in 1..Len(users) : users[i].id = id
    ELSE 0

\* Workloads a client can send besides the ones it was given.
OtherWorkloads == { Int2Num(0), Num(1, 2), Int2Num(1) }

\* router.patch('/employees/:id/workload')
PatchWorkload ==
    \E id \in { users[i].id : i \in 1..Len(users) } \cup { "unknown" } :
    \E workload \in OtherWorkloads \cup
                    { employees.response[i].workload.computed_score :
                        i \in { j \in 1..Len(employees.response) : employees.response[j].id = id } } :
        /\ IF UserIndex(id) = 0
           THEN /\ users' = users
                /\ employees' = [employees EXCEPT !.request =
                                    [pc |-> "404", id |-> id, workload |-> workload]]
           ELSE /\ users' = [users EXCEPT ![UserIndex(id)].free_slots_per_week =
                                             <<freeSlotsFromWorkload(workload)>>]
                /\ employees' = [employees EXCEPT !.request =
                                    [pc |-> "ok", id |-> id, workload |-> workload]]
        /\ UNCHANGED <<syncVars, db, fetch, roleCall, fin>>

Str_Developer == <<"D","e","v","e","l","o","p","e","r">>

Str_SeniorDeveloper == <<"S","e","n","i","o","r"," ","D","e","v","e","l","o","p","e","r">>

\* The users collection at the start: one Person, every free-capacity value
\* of a week, years around each threshold.
UserDocs ==
    [id : {"u1"},
     free_slots_per_week : {NULL} \cup { <<n>> : n \in 0..maxSlots },
     years_of_experience : {NULL, <<0>>, <<2>>, <<5>>, <<6>>, <<10>>},
     role : {NULL, Str_Developer, Str_SeniorDeveloper},
     availability : {"Free", "Busy"},
     capacity_hours_per_sprint : {NULL},
     hourly_rate : {NULL}]

InitAlloc ==
    /\ SyncAtRest
    /\ roleCall = NoRoleCall
    /\ users \in { <<>> } \cup { <<u>> : u \in UserDocs }
    /\ employees = [response |-> <<>>, atGet |-> <<>>, request |-> [pc |-> "none"]]
    /\ db = EmptyDb
    /\ fetch = NoFetch
    /\ fin = NoFin

NextAlloc ==
    \/ GetEmployees
    \/ PatchWorkload

AllocSpec == InitAlloc /\ [][NextAlloc]_vars

\* C9: sending the computed_score that GET /employees returned for a Person
\* back through PATCH /employees/:id/workload stores a free_slots_per_week
\* within 1 hour of the value the Person had (any integer 0..40).
C9_RoundTripWithinOneHour ==
    \A i \in 1..Len(employees.atGet) :
        ( /\ employees.request.pc = "ok"
          /\ employees.request.id = employees.atGet[i].id
          /\ employees.request.workload = employees.response[i].workload.computed_score
          /\ employees.atGet[i].free_slots_per_week # NULL )
        => LET before == employees.atGet[i].free_slots_per_week[1]
               after == users[UserIndex(employees.request.id)].free_slots_per_week[1]
           IN  before - after <= 1 /\ after - before <= 1

(***************************************************************************)
(* Cost/Metrics Aggregator: routes/finance.js                              *)
(*                                                                         *)
(* fin.tasks and fin.issues are the Task and Issue documents the           *)
(* aggregator reads; a date is the number of calendar days before today.   *)
(***************************************************************************)
fallbackRate == 75

marketRate == 150

defaultCapacity == 40

defaultDays == 30

MaxDays == 3

MaxTasks == 2

SumInt(seq) ==
    LET f[i \in 0..Len(seq)] == IF i = 0 THEN 0 ELSE f[i - 1] + seq[i]
    IN  f[Len(seq)]

SumNum(seq) ==
    LET f[i \in 0..Len(seq)] == IF i = 0 THEN Int2Num(0) ELSE JsAdd(f[i - 1], seq[i])
    IN  f[Len(seq)]

\* JSON.stringify writes NaN and the infinities as null
JsonNull == [t |-> "null", n |-> 0, d |-> 1]

toJSON(x) == IF IsFiniteNum(x) THEN x ELSE JsonNull

hoursOf_Eight(task) == OrElse(task.estimated_hours, 8)

\* t.estimated_hours || 0
hoursOf(task) == OrElse(task.estimated_hours, 0)

hoursOfAll(tasks) == SumInt([i \in 1..Len(tasks) |-> hoursOf(tasks[i])])

withStatus(tasks, status) == SelectSeq(tasks, LAMBDA t : t.status = status)

avgHourlyRate_AllPersons ==
    JsDiv(Int2Num(SumInt([i \in 1..Len(users) |-> OrElse(users[i].hourly_rate, 0)])),
          Int2Num(Len(users)))

\* User.find({ hourly_rate: { $exists: true, $gt: 0 } }), then the mean or 75
avgHourlyRate ==
    LET rated == SelectSeq(users, LAMBDA u : u.hourly_rate # NULL /\ u.hourly_rate[1] > 0)
    IN  IF Len(rated) > 0
        THEN JsDiv(Int2Num(SumInt([i \in 1..Len(rated) |-> rated[i].hourly_rate[1]])),
                   Int2Num(Len(rated)))
        ELSE Int2Num(fallbackRate)

\* tasks.length > 0 ? Math.round((done / tasks.length) * 100) : 0
completionRate(done, all) ==
    IF all > 0 THEN JsRound(JsMul(JsDiv(Int2Num(done), Int2Num(all)), Int2Num(100)))
    ELSE Int2Num(0)

\* router.get('/overview'): the object given to res.json (the sum over the
\* issues' costs is computed and not returned)
overview ==
    LET tasks == fin.tasks
        totalEstimatedHours == Int2Num(hoursOfAll(tasks))
        completedTasks == withStatus(tasks, "done")
        totalBudgetedCost == JsMul(totalEstimatedHours, avgHourlyRate)
        completedHours == Int2Num(hoursOfAll(completedTasks))
        actualSpentCost == JsMul(completedHours, avgHourlyRate)
        marketCost == JsMul(totalEstimatedHours, Int2Num(marketRate))
        savings == JsSub(marketCost, totalBudgetedCost)
        roi == IF JsLess(Int2Num(0), totalBudgetedCost)
               THEN JsMul(JsDiv(savings, totalBudgetedCost), Int2Num(100))
               ELSE Int2Num(0)
    IN  [summary |->
            [total_budgeted_cost |-> JsRound(totalBudgetedCost),
             actual_spent_cost |-> JsRound(actualSpentCost),
             remaining_budget |-> JsRound(JsSub(totalBudgetedCost, actualSpentCost)),
             market_rate_cost |-> JsRound(marketCost),
             projected_savings |-> JsRound(savings),
             roi_percentage |-> JsRound1(roi),
             avg_hourly_rate |-> JsRound(avgHourlyRate)],
         tasks |->
            [total |-> Int2Num(Len(tasks)),
             completed |-> Int2Num(Len(completedTasks)),
             in_progress |-> Int2Num(Len(withStatus(tasks, "in_progress"))),
             pending |-> Int2Num(Len(withStatus(tasks, "pending"))),
             completion_rate |-> completionRate(Len(completedTasks), Len(tasks))],
         hours |->
            [total_estimated |-> JsRound(totalEstimatedHours),
             completed |-> JsRound(completedHours),
             remaining |-> JsRound(JsSub(totalEstimatedHours, completedHours))]]

\* Task.find({ updatedAt: { $gte: startDate } }): startDate is `days` days
\* before now, so a document of the boundary day passes by its time of day
updatedSince(docs, days) ==
    SelectSeq(docs, LAMBDA d : d.updatedAt < days \/ (d.updatedAt = days /\ days > 0))

\* what tasks.forEach and issues.forEach add to the bucket of the day `date`
completedOn(date, tasks) ==
    Len(SelectSeq(tasks, LAMBDA t : t.updatedAt = date /\ t.status = "done"))

hoursLoggedOn(date, tasks) ==
    hoursOfAll(SelectSeq(tasks, LAMBDA t : t.updatedAt = date /\ t.status = "done"))

costIncurredOn(date, issues) ==
    LET costs == SelectSeq(issues, LAMBDA i : i.updatedAt = date)
    IN  SumInt([i \in 1..Len(costs) |-> OrElse(costs[i].actual_cost, 0)])

\* Mutant: a task past its deadline counts as delayed also when it is done.
dailyBucket_DoneDelayed(date, tasks, issues) ==
    LET on == SelectSeq(tasks, LAMBDA t : t.updatedAt = date)
    IN  [date |-> date,
         completed |-> completedOn(date, tasks),
         started |-> Len(withStatus(on, "in_progress")),
         delayed |-> Len(SelectSeq(on, LAMBDA t : t.overdue)),
         on_track |-> Len(SelectSeq(on, LAMBDA t : ~t.overdue /\ t.status # "done")),
         cost_incurred |-> costIncurredOn(date, issues),
         hours_logged |-> hoursLoggedOn(date, tasks)]

\* The bucket of the day `date` after tasks.forEach and issues.forEach
dailyBucket(date, tasks, issues) ==
    LET open == SelectSeq(tasks, LAMBDA t : t.updatedAt = date /\ t.status # "done")
    IN  [date |-> date,
         completed |-> completedOn(date, tasks),
         started |-> Len(withStatus(open, "in_progress")),
         delayed |-> Len(SelectSeq(open, LAMBDA t : t.overdue)),
         on_track |-> Len(SelectSeq(open, LAMBDA t : ~t.overdue)),
         cost_incurred |-> costIncurredOn(date, issues),
         hours_logged |-> hoursLoggedOn(date, tasks)]

\* dailyData after the loops, in the order the keys were created: today
\* first, then one day back at a time
dailyData(days, tasks, issues) ==
    [i \in 1..days |-> dailyBucket(i - 1, tasks, issues)]

\* Mutant: the buckets stay in the order they were created in.
insertByDate_AtEnd(bucket, sorted) == Append(sorted, bucket)

\* a bucket put at its place in a list that is in ascending date order (a
\* date is further back the larger its number of days before today)
RECURSIVE insertByDate(_, _)
insertByDate(bucket, sorted) ==
    IF sorted = <<>> THEN <<bucket>>
    ELSE IF bucket.date > Head(sorted).date THEN <<bucket>> \o sorted
    ELSE <<Head(sorted)>> \o insertByDate(bucket, Tail(sorted))

RECURSIVE sortByDate(_, _)
sortByDate(sorted, rest) ==
    IF rest = <<>> THEN sorted
    ELSE sortByDate(insertByDate(Head(rest), sorted), Tail(rest))

\* Object.values(dailyData).sort((a, b) => new Date(a.date) - new Date(b.date))
sortedDays(days, tasks, issues) == sortByDate(<<>>, dailyData(days, tasks, issues))

\* sortedDays.forEach: the running totals after each of the first j days
RECURSIVE cumulative(_, _)
cumulative(buckets, j) ==
    IF j = 0 THEN <<>>
    ELSE LET before == cumulative(buckets, j - 1)
             last == IF j = 1 THEN [completed |-> 0, cost |-> 0, hours |-> 0] ELSE before[j - 1]
         IN  Append(before, [completed |-> last.completed + buckets[j].completed,
                             cost |-> last.cost + buckets[j].cost_incurred,
                             hours |-> last.hours + buckets[j].hours_logged])

\* router.get('/daily-progress'): the object given to res.json
dailyProgress(days) ==
    LET tasks == updatedSince(fin.tasks, days)
        issues == updatedSince(fin.issues, days)
        buckets == sortedDays(days, tasks, issues)
        running == cumulative(buckets, Len(buckets))
        totals == IF Len(running) = 0 THEN [completed |-> 0, cost |-> 0, hours |-> 0]
                  ELSE running[Len(running)]
    IN  [daily_breakdown |->
            [j \in 1..Len(buckets) |->
                [date |-> buckets[j].date,
                 completed |-> Int2Num(buckets[j].completed),
                 started |-> Int2Num(buckets[j].started),
                 delayed |-> Int2Num(buckets[j].delayed),
                 on_track |-> Int2Num(buckets[j].on_track),
                 cost_incurred |-> Int2Num(buckets[j].cost_incurred),
                 hours_logged |-> Int2Num(buckets[j].hours_logged),
                 cumulative_completed |-> Int2Num(running[j].completed),
                 cumulative_cost |-> JsRound(Int2Num(running[j].cost)),
                 cumulative_hours |-> JsRound1(Int2Num(running[j].hours))]],
         totals |->
            [total_completed |-> Int2Num(totals.completed),
             total_cost |-> JsRound(Int2Num(totals.cost)),
             total_hours |-> JsRound(Int2Num(totals.hours)),
             avg_daily_completion |->
                JsRound1(JsDiv(Int2Num(totals.completed), Int2Num(days)))]]

\* teamCosts.sort((a, b) => b.cost.incurred - a.cost.incurred): a stable
\* sort, highest incurred cost first
RECURSIVE sortByIncurred(_)
sortByIncurred(rows) ==
    IF Len(rows) <= 1 THEN rows
    ELSE LET rest == sortByIncurred(Tail(rows))
             head == Head(rows)
             before == { i \in 1..Len(rest) :
                            \A j \in 1..i : JsLess(head.cost.incurred, rest[j].cost.incurred) }
             k == Cardinality(before)
         IN  SubSeq(rest, 1, k) \o <<head>> \o SubSeq(rest, k + 1, Len(rest))

\* the element of teamCosts of one user
teamCostOf(user, tasks) ==
    LET userTasks == SelectSeq(tasks, LAMBDA t : t.allocated_to # NULL /\ t.allocated_to[1] = user.id)
        completedTasks == withStatus(userTasks, "done")
        totalHours == Int2Num(hoursOfAll(userTasks))
        completedHours == Int2Num(hoursOfAll(completedTasks))
        hourlyRate == Int2Num(OrElse(user.hourly_rate, fallbackRate))
        capacity == Int2Num(OrElse(user.capacity_hours_per_sprint, defaultCapacity))
        totalCost == JsMul(totalHours, hourlyRate)
        costIncurred == JsMul(completedHours, hourlyRate)
    IN  [user_id |-> user.id,
         hourly_rate |-> hourlyRate,
         metrics |->
            [total_tasks |-> Int2Num(Len(userTasks)),
             completed_tasks |-> Int2Num(Len(completedTasks)),
             in_progress_tasks |-> Int2Num(Len(withStatus(userTasks, "in_progress"))),
             completion_rate |-> completionRate(Len(completedTasks), Len(userTasks))],
         hours |->
            [allocated |-> JsRound(totalHours),
             completed |-> JsRound(completedHours),
             capacity |-> capacity,
             utilization |-> JsRound(JsMul(JsDiv(totalHours, capacity), Int2Num(100)))],
         cost |->
            [total_allocated |-> JsRound(totalCost),
             incurred |-> JsRound(costIncurred),
             remaining |-> JsRound(JsSub(totalCost, costIncurred))]]

\* router.get('/team-costs'): the object given to res.json
teamCostsResponse ==
    LET teamCosts == sortByIncurred([i \in 1..Len(users) |-> teamCostOf(users[i], fin.tasks)])
        withTasks == SelectSeq(teamCosts, LAMBDA t : JsLess(Int2Num(0), t.metrics.total_tasks))
        totalAllocated == SumNum([i \in 1..Len(teamCosts) |-> teamCosts[i].cost.total_allocated])
        totalIncurred == SumNum([i \in 1..Len(teamCosts) |-> teamCosts[i].cost.incurred])
        utilization == SumNum([i \in 1..Len(teamCosts) |-> teamCosts[i].hours.utilization])
    IN  [team |-> withTasks,
         summary |->
            [total_team_members |-> Int2Num(Len(withTasks)),
             total_allocated_cost |-> JsRound(totalAllocated),
             total_incurred_cost |-> JsRound(totalIncurred),
             avg_utilization |->
                JsRound(JsDiv(utilization,
                              Int2Num(IF Len(teamCosts) = 0 THEN 1 ELSE Len(teamCosts))))]]

\* t.estimated_hours || 8
riskHoursOf(task) == OrElse(task.estimated_hours, 8)

overloadHours == 40

\* delayedTasks.length > 5 ? 'high' : delayedTasks.length > 2 ? 'medium' : 'low'
delayedSeverity(count) ==
    IF count > 5 THEN "high" ELSE IF count > 2 THEN "medium" ELSE "low"

\* n.length > 3 ? 'high' : 'medium'
countSeverity(count) == IF count > 3 THEN "high" ELSE "medium"

Risk(type, severity, count, impact) ==
    [type |-> type, severity |-> severity, count |-> Int2Num(count),
     potential_cost_impact |-> JsRound(impact)]

\* userWorkload: the hours of the open allocated tasks of each user id
userWorkload(tasks) ==
    LET allocatedTasks == SelectSeq(tasks, LAMBDA t : t.allocated_to # NULL /\ t.status # "done")
        ids == { allocatedTasks[i].allocated_to : i \in 1..Len(allocatedTasks) }
    IN  [id \in ids |->
            LET mine == SelectSeq(allocatedTasks, LAMBDA t : t.allocated_to = id)
            IN  SumInt([i \in 1..Len(mine) |-> riskHoursOf(mine[i])])]

severityOrder(severity) ==
    CASE severity = "high" -> 0
      [] severity = "medium" -> 1
      [] OTHER -> 2

\* risks.sort((a, b) => severityOrder[a.severity] - severityOrder[b.severity]):
\* a stable sort
RECURSIVE sortBySeverity(_)
sortBySeverity(risks) ==
    IF Len(risks) <= 1 THEN risks
    ELSE LET rest == sortBySeverity(Tail(risks))
             head == Head(risks)
             before == { i \in 1..Len(rest) :
                            \A j \in 1..i :
                                severityOrder(rest[j].severity) < severityOrder(head.severity) }
             k == Cardinality(before)
         IN  SubSeq(rest, 1, k) \o <<head>> \o SubSeq(rest, k + 1, Len(rest))

overallRiskLevel_NeverLow(highRisks, mediumRisks) ==
    IF highRisks > 0 THEN "high" ELSE "medium"

\* highRisks > 0 ? 'high' : mediumRisks > 2 ? 'medium' : 'low'
overallRiskLevel(highRisks, mediumRisks) ==
    IF highRisks > 0 THEN "high" ELSE IF mediumRisks > 2 THEN "medium" ELSE "low"

\* router.get('/risk-assessment'): the object given to res.json
riskAssessment ==
    LET tasks == fin.tasks
        delayedTasks == SelectSeq(tasks, LAMBDA t : t.overdue /\ t.status # "done")
        delayedHours == SumInt([i \in 1..Len(delayedTasks) |-> riskHoursOf(delayedTasks[i])])
        workload == userWorkload(tasks)
        overloaded == Cardinality({ id \in DOMAIN workload : workload[id] > overloadHours })
        unassigned == Len(SelectSeq(tasks, LAMBDA t : /\ t.priority = "high"
                                                      /\ t.allocated_to = NULL
                                                      /\ t.status = "pending"))
        pendingCount == Len(withStatus(tasks, "pending"))
        totalCount == Len(tasks)
        times(n, hours) == JsMul(JsMul(Int2Num(n), avgHourlyRate), Int2Num(hours))
        risks ==
            (IF Len(delayedTasks) > 0
             THEN << Risk("delayed_tasks", delayedSeverity(Len(delayedTasks)), Len(delayedTasks),
                          JsMul(JsMul(Int2Num(delayedHours), avgHourlyRate), Num(3, 10))) >>
             ELSE <<>>)
            \o (IF overloaded > 0
                THEN << Risk("resource_overload", countSeverity(overloaded), overloaded,
                             times(overloaded, 8)) >>
                ELSE <<>>)
            \o (IF unassigned > 0
                THEN << Risk("unassigned_priority", countSeverity(unassigned), unassigned,
                             times(unassigned, 16)) >>
                ELSE <<>>)
            \o (IF totalCount > 0 /\ 10 * pendingCount > 6 * totalCount
                THEN << Risk("scope_creep", "medium", pendingCount, times(pendingCount, 4)) >>
                ELSE <<>>)
        totalRiskCost == SumNum([i \in 1..Len(risks) |-> risks[i].potential_cost_impact])
        withSeverity(severity) == Len(SelectSeq(risks, LAMBDA r : r.severity = severity))
    IN  [overall_risk_level |-> overallRiskLevel(withSeverity("high"), withSeverity("medium")),
         total_risk_exposure |-> JsRound(totalRiskCost),
         risks |-> sortBySeverity(risks),
         summary |-> [high_risks |-> Int2Num(withSeverity("high")),
                      medium_risks |-> Int2Num(withSeverity("medium")),
                      low_risks |-> Int2Num(withSeverity("low")),
                      total_risks |-> Int2Num(Len(risks))]]


GetOverview ==
    /\ fin' = [fin EXCEPT !.pc = "responded", !.endpoint = "overview",
                          !.days = NULL, !.response = overview]
    /\ UNCHANGED <<syncVars, db, fetch, roleCall, users, employees>>

\* const { days = 30 } = req.query, then parseInt(days)
GetDailyProgress ==
    \E query \in {NULL} \cup { <<n>> : n \in 0..MaxDays } :
        /\ fin' = [fin EXCEPT !.pc = "responded", !.endpoint = "daily-progress",
                              !.days = query,
                              !.response = dailyProgress(IF query = NULL THEN defaultDays
                                                         ELSE query[1])]
        /\ UNCHANGED <<syncVars, db, fetch, roleCall, users, employees>>

GetTeamCosts ==
    /\ fin' = [fin EXCEPT !.pc = "responded", !.endpoint = "team-costs",
                          !.days = NULL, !.response = teamCostsResponse]
    /\ UNCHANGED <<syncVars, db, fetch, roleCall, users, employees>>

GetRiskAssessment ==
    /\ fin' = [fin EXCEPT !.pc = "responded", !.endpoint = "risk-assessment",
                          !.days = NULL, !.response = riskAssessment]
    /\ UNCHANGED <<syncVars, db, fetch, roleCall, users, employees>>

Person(id, rate, capacity) ==
    [id |-> id, free_slots_per_week |-> NULL, years_of_experience |-> NULL, role |-> NULL,
     availability |-> "Free", capacity_hours_per_sprint |-> capacity, hourly_rate |-> rate]

\* The users collection: empty, nobody with a rate, a rate of 0, one and two
\* rated Persons.
FinRosters ==
    { <<>>,
      <<Person("u1", NULL, NULL)>>,
      <<Person("u1", <<0>>, <<20>>)>>,
      <<Person("u1", <<60>>, <<20>>)>>,
      <<Person("u1", <<60>>, NULL), Person("u2", <<95>>, <<20>>)>>,
      <<Person("u1", NULL, NULL), Person("u2", <<95>>, NULL)>> }

\* Task documents: every status, with and without an estimate, a deadline
\* passed or not, allocated or not, last updated today, 1 or 2 days ago.
FinTaskDocs ==
    { [status |-> "done", estimated_hours |-> <<8>>, overdue |-> FALSE,
       allocated_to |-> <<"u1">>, updatedAt |-> 0, priority |-> "medium"],
      [status |-> "done", estimated_hours |-> NULL, overdue |-> TRUE,
       allocated_to |-> NULL, updatedAt |-> 1, priority |-> "medium"],
      [status |-> "done", estimated_hours |-> <<3>>, overdue |-> FALSE,
       allocated_to |-> <<"u2">>, updatedAt |-> 2, priority |-> "low"],
      [status |-> "in_progress", estimated_hours |-> <<5>>, overdue |-> TRUE,
       allocated_to |-> <<"u1">>, updatedAt |-> 1, priority |-> "high"],
      [status |-> "in_progress", estimated_hours |-> <<3>>, overdue |-> FALSE,
       allocated_to |-> <<"u2">>, updatedAt |-> 2, priority |-> "medium"],
      [status |-> "pending", estimated_hours |-> <<3>>, overdue |-> FALSE,
       allocated_to |-> NULL, updatedAt |-> 0, priority |-> "high"] }

FinIssues ==
    { <<>>,
      <<[updatedAt |-> 0, actual_cost |-> <<120>>]>>,
      <<[updatedAt |-> 1, actual_cost |-> NULL], [updatedAt |-> 1, actual_cost |-> <<45>>]>> }

SeqsUpTo(S, n) == UNION { [1..m -> S] : m \in 0..n }

InitFin ==
    /\ SyncAtRest
    /\ roleCall = NoRoleCall
    /\ employees = [response |-> <<>>, atGet |-> <<>>, request |-> [pc |-> "none"]]
    /\ db = EmptyDb
    /\ fetch = NoFetch
    /\ users \in FinRosters
    /\ fin \in [pc : {"none"}, endpoint : {"none"}, days : {NULL}, response : {NULL},
                tasks : SeqsUpTo(FinTaskDocs, MaxTasks), issues : FinIssues]

NextFin ==
    \/ GetOverview
    \/ GetDailyProgress
    \/ GetTeamCosts
    \/ GetRiskAssessment

FinSpec == InitFin /\ [][NextFin]_vars

FieldsOf(r) == { r[f] : f \in DOMAIN r }

NumericFields ==
    IF fin.endpoint = "overview"
    THEN FieldsOf(fin.response.summary) \cup FieldsOf(fin.response.tasks)
            \cup FieldsOf(fin.response.hours)
    ELSE IF fin.endpoint = "daily-progress"
    THEN FieldsOf(fin.response.totals) \cup
         UNION { { fin.response.daily_breakdown[j][f] :
                     f \in DOMAIN fin.response.daily_breakdown[j] \ {"date"} } :
                 j \in 1..Len(fin.response.daily_breakdown) }
    ELSE IF fin.endpoint = "risk-assessment"
    THEN {fin.response.total_risk_exposure} \cup FieldsOf(fin.response.summary) \cup
         UNION { {fin.response.risks[j].count, fin.response.risks[j].potential_cost_impact} :
                 j \in 1..Len(fin.response.risks) }
    ELSE FieldsOf(fin.response.summary) \cup
         UNION { {fin.response.team[j].hourly_rate} \cup FieldsOf(fin.response.team[j].metrics)
                    \cup FieldsOf(fin.response.team[j].hours)
                    \cup FieldsOf(fin.response.team[j].cost) :
                 j \in 1..Len(fin.response.team) }

\* C10: every numeric field of a response of GET /overview, /daily-progress
\* and /team-costs is sent as a finite number, whatever the store holds and
\* whatever the query asks, a window of 0 days included.
C10_AllNumbersFinite ==
    fin.pc = "responded" => \A x \in NumericFields : IsFiniteNum(toJSON(x))

\* C11: on a store with no work items GET /risk-assessment returns an empty
\* risks list, overall_risk_level 'low', total_risk_exposure 0 and every
\* summary count 0.
C11_EmptyStoreNoRisk ==
    (fin.pc = "responded" /\ fin.endpoint = "risk-assessment" /\ fin.tasks = <<>>)
    => ( /\ fin.response.risks = <<>>
         /\ fin.response.overall_risk_level = "low"
         /\ fin.response.total_risk_exposure = Int2Num(0)
         /\ \A f \in DOMAIN fin.response.summary : fin.response.summary[f] = Int2Num(0) )

\* The risk assessment has answered on a store without work items and with
\* two rated Persons.
C11_Witness ==
    /\ fin.pc = "responded" /\ fin.endpoint = "risk-assessment"
    /\ fin.tasks = <<>> /\ Len(users) = 2
    /\ fin.response.risks = <<>>

\* what the store holds in all, whatever the day
AllDone == withStatus(fin.tasks, "done")

AllOpen == SelectSeq(fin.tasks, LAMBDA t : t.status # "done")

AllCost == SumInt([i \in 1..Len(fin.issues) |-> OrElse(fin.issues[i].actual_cost, 0)])

WindowOf(query) == IF query = NULL THEN defaultDays ELSE query[1]

\* C12: when every task and issue was last updated on one day d of the
\* window, the bucket of d holds the full counts and every other bucket
\* holds zeros; for every input daily_breakdown is in ascending date order
\* and its cumulative_completed, cumulative_cost and cumulative_hours never
\* decrease.
C12_BucketsAndCumulative ==
    (fin.pc = "responded" /\ fin.endpoint = "daily-progress")
    => LET days == fin.response.daily_breakdown
           n == WindowOf(fin.days)
       IN  /\ Len(days) = n
           /\ \A j \in 1..(Len(days) - 1) :
                 /\ days[j].date > days[j + 1].date
                 /\ ~JsLess(days[j + 1].cumulative_completed, days[j].cumulative_completed)
                 /\ ~JsLess(days[j + 1].cumulative_cost, days[j].cumulative_cost)
                 /\ ~JsLess(days[j + 1].cumulative_hours, days[j].cumulative_hours)
           /\ \A d \in 0..(n - 1) :
                 ( /\ \A i \in 1..Len(fin.tasks) : fin.tasks[i].updatedAt = d
                   /\ \A i \in 1..Len(fin.issues) : fin.issues[i].updatedAt = d )
                 => \A j \in 1..Len(days) :
                       IF days[j].date = d
                       THEN /\ days[j].completed = Int2Num(Len(AllDone))
                            /\ days[j].started = Int2Num(Len(withStatus(fin.tasks, "in_progress")))
                            /\ JsAdd(days[j].delayed, days[j].on_track) = Int2Num(Len(AllOpen))
                            /\ days[j].delayed
                                 = Int2Num(Len(SelectSeq(AllOpen, LAMBDA t : t.overdue)))
                            /\ days[j].cost_incurred = Int2Num(AllCost)
                            /\ days[j].hours_logged = Int2Num(hoursOfAll(AllDone))
                       ELSE /\ days[j].completed = Int2Num(0)
                            /\ days[j].started = Int2Num(0)
                            /\ days[j].delayed = Int2Num(0)
                            /\ days[j].on_track = Int2Num(0)
                            /\ days[j].cost_incurred = Int2Num(0)
                            /\ days[j].hours_logged = Int2Num(0)

\* A 3-day window, two tasks and two issues all last updated on the middle
\* day, one of the tasks done.
C12_Witness ==
    /\ fin.pc = "responded" /\ fin.endpoint = "daily-progress" /\ fin.days = <<3>>
    /\ Len(fin.tasks) = 2 /\ Len(fin.issues) = 2
    /\ \A i \in 1..2 : fin.tasks[i].updatedAt = 1 /\ fin.issues[i].updatedAt = 1
    /\ fin.response.daily_breakdown[2].completed = Int2Num(1)
    /\ fin.response.daily_breakdown[2].cost_incurred = Int2Num(45)
    /\ fin.response.daily_breakdown[3].cumulative_cost = Int2Num(45)

(***************************************************************************)
(* Seeder and imports: natural-key upserts                                 *)
(*                                                                         *)
(* A document is kept as far as its keys go.                               *)
(***************************************************************************)
MaxOps == 3

usersData ==
    << [email |-> "alex.chen@example.com",   user_id |-> "manual:EMP001"],
       [email |-> "sarah.jones@example.com", user_id |-> "manual:EMP002"],
       [email |-> "mike.ross@example.com",   user_id |-> "manual:EMP003"],
       [email |-> "emily.davis@example.com", user_id |-> "manual:EMP004"],
       [email |-> "daniel.lee@example.com",  user_id |-> "manual:EMP005"] >>

commitsData ==
    << [commit_id |-> "sha123456", raw_signature |-> "alex-1"],
       [commit_id |-> "sha123457", raw_signature |-> "alex-2"],
       [commit_id |-> "sha888888", raw_signature |-> "sarah-1"],
       [commit_id |-> "sha999999", raw_signature |-> "mike-1"] >>

issuesData ==
    << [key |-> <<"PROJ", 101>>, issue_id |-> "10001"],
       [key |-> <<"PROJ", 102>>, issue_id |-> "10002"] >>

\* the first document of coll whose field `field` is `value`, 0 if none
FindOne(coll, field, value) ==
    IF \E i \in 1..Len(coll) : coll[i][field] = value
    THEN CHOOSE i \in 1..Len(coll) :
            /\ coll[i][field] = value
            /\ \A j \in 1..(i - 1) : coll[j][field] # value
    ELSE 0

upsertOne_AlwaysInsert(coll, field, doc) == Append(coll, doc)

\* Model.findOneAndUpdate({ field: doc[field] }, { $set: doc }, { upsert: true })
upsertOne(coll, field, doc) ==
    IF FindOne(coll, field, doc[field]) > 0
    THEN [coll EXCEPT ![FindOne(coll, field, doc[field])] = doc]
    ELSE Append(coll, doc)

RECURSIVE upsertEach(_, _, _)
\* for (const doc of docs) await Model.findOneAndUpdate(...)
upsertEach(coll, field, docs) ==
    IF docs = <<>> THEN coll
    ELSE upsertEach(upsertOne(coll, field, Head(docs)), field, Tail(docs))

uniqueIndex_NotEnforced(coll, field, doc, self) == FALSE

\* the unique index on `field`: a write of doc is refused when a document
\* other than the one written (self, 0 for an insert) holds the same value
uniqueIndex(coll, field, doc, self) ==
    \E j \in 1..Len(coll) : j # self /\ coll[j][field] = doc[field]

\* Commit.findOneAndUpdate({ commit_id }, { $set: commitData }, { upsert: true })
\* under the unique index on raw_signature
upsertCommit(coll, commitData) ==
    IF uniqueIndex(coll, "raw_signature", commitData,
                   FindOne(coll, "commit_id", commitData.commit_id))
    THEN [ok |-> FALSE, coll |-> coll]
    ELSE [ok |-> TRUE, coll |-> upsertOne(coll, "commit_id", commitData)]

RECURSIVE upsertCommits(_, _)
\* the loop over commitsData: the first refused write throws out of it
upsertCommits(coll, docs) ==
    IF docs = <<>> THEN [ok |-> TRUE, coll |-> coll]
    ELSE IF upsertCommit(coll, Head(docs)).ok
         THEN upsertCommits(upsertCommit(coll, Head(docs)).coll, Tail(docs))
         ELSE [ok |-> FALSE, coll |-> coll]

\* History kept for the claims: the operation that ran last, and, when the
\* same operation ran twice in a row on the same input, the sizes of the
\* collections it writes after the first and after the second run.
Rerun(op, input, sizes) ==
    IF db.last.op = op /\ db.last.input = input
    THEN [op |-> op, before |-> db.last.sizes, after |-> sizes, firstFailed |-> db.last.failed]
    ELSE [op |-> "none", before |-> <<>>, after |-> <<>>, firstFailed |-> FALSE]

\* node seeder.js, all of runSeed: a write that throws ends the script (the
\* catch calls process.exit), what was written before it stays
seedDatabase ==
    /\ db.ops < MaxOps
    /\ \E stop \in {6} \cup (IF db.faults < MaxFaults THEN 1..5 ELSE {}) :
        LET commits == IF stop > 3 THEN upsertCommits(db.commits, commitsData)
                       ELSE [ok |-> FALSE, coll |-> db.commits]
            newUsers == IF stop > 1 THEN upsertEach(db.users, "email", usersData) ELSE db.users
            newTasks == IF stop > 2 THEN upsertAll(store, tasksData, 1, schema.synced_to_jira)
                        ELSE store
            newIssues == IF commits.ok /\ stop > 4
                         THEN upsertEach(db.issues, "key", issuesData) ELSE db.issues
            newRuns == IF commits.ok /\ stop > 5
                       THEN Append(db.allocationRuns, [sprint_id |-> "SPRINT-24-01-RUN-1"])
                       ELSE db.allocationRuns
            sizes == <<Len(newUsers), Len(newTasks), Len(commits.coll), Len(newIssues),
                       Len(newRuns)>>
        IN  /\ store' = newTasks
            /\ db' = [db EXCEPT !.users = newUsers, !.commits = commits.coll,
                                !.issues = newIssues, !.allocationRuns = newRuns,
                                !.ops = @ + 1,
                                !.faults = IF stop < 6 THEN @ + 1 ELSE @,
                                !.last = [op |-> "seed", input |-> <<>>, sizes |-> sizes,
                                          failed |-> ~(commits.ok /\ stop = 6)],
                                !.rerun = Rerun("seed", <<>>, sizes)]
    /\ prev' = [prev EXCEPT !.dirty = TRUE]
    /\ UNCHANGED <<jira, run, env, schema, counts, fetch, roleCall, users, employees, fin>>

\* What the Commit model is asked to insert: a seeded commit again, the
\* signature of a seeded commit under another id, a new commit.
CommitInputs ==
    { [commit_id |-> "sha123456", raw_signature |-> "alex-1"],
      [commit_id |-> "sha555555", raw_signature |-> "alex-1"],
      [commit_id |-> "sha777777", raw_signature |-> "nina-1"] }

\* Commit.create(commit) under the unique index on raw_signature
insertCommit ==
    /\ db.ops < MaxOps
    /\ \E commit \in CommitInputs :
          db' = [db EXCEPT !.commits = IF uniqueIndex(@, "raw_signature", commit, 0)
                                       THEN @ ELSE Append(@, commit),
                           !.ops = @ + 1,
                           !.last = [op |-> "insertCommit", input |-> commit,
                                     sizes |-> <<>>, failed |-> FALSE],
                           !.rerun = Rerun("none", <<>>, <<>>)]
    /\ UNCHANGED <<syncVars, fetch, roleCall, users, employees, fin>>

RECURSIVE aggregateByContributor(_, _)
\* one contributor per author_email, in order of first appearance, with the
\* number of that author's commits
aggregateByContributor(detailedCommits, contributors) ==
    IF detailedCommits = <<>> THEN contributors
    ELSE LET key == Head(detailedCommits)
             i == FindOne(contributors, "contributor_id", key)
         IN  aggregateByContributor(Tail(detailedCommits),
                IF i = 0
                THEN Append(contributors, [contributor_id |-> key, total_commits |-> 1])
                ELSE [contributors EXCEPT ![i].total_commits = @ + 1])

RECURSIVE storeDataInMongoDB(_, _, _, _, _)
\* for (const doc of docs) try { findOneAndUpdate({ key }, doc, { upsert }) }
\* catch { failCount++ }: the write of the doc at position failing throws
storeDataInMongoDB(coll, field, docs, i, failing) ==
    IF i > Len(docs) THEN coll
    ELSE storeDataInMongoDB(IF i = failing THEN coll ELSE upsertOne(coll, field, docs[i]),
                            field, docs, i + 1, failing)

\* the author emails of the commits a GitHub fetch returns
GitHubInputs == { <<"a@x">>, <<"a@x", "b@x", "a@x">> }

\* the users a Jira fetch returns, each with the number of tickets assigned
JiraInputs ==
    { << [user_id |-> "acc-1", tickets |-> 2] >>,
      << [user_id |-> "acc-1", tickets |-> 2], [user_id |-> "acc-2", tickets |-> 0],
         [user_id |-> "acc-1", tickets |-> 2] >> }

\* the position of the write that throws, 0 for none
Failing(docs) == {0} \cup (IF db.faults < MaxFaults THEN 1..Len(docs) ELSE {})

\* node fetch_github_to_mongodb.js, phases 3 and 4
importGitHub ==
    /\ db.ops < MaxOps
    /\ \E detailedCommits \in GitHubInputs :
        LET contributors == aggregateByContributor(detailedCommits, <<>>)
        IN  \E failing \in Failing(contributors) :
              LET stored == storeDataInMongoDB(db.github, "contributor_id", contributors,
                                               1, failing)
              IN  db' = [db EXCEPT !.github = stored,
                                   !.ops = @ + 1,
                                   !.faults = IF failing > 0 THEN @ + 1 ELSE @,
                                   !.last = [op |-> "github", input |-> detailedCommits,
                                             sizes |-> <<Len(stored)>>,
                                             failed |-> failing > 0],
                                   !.rerun = Rerun("github", detailedCommits, <<Len(stored)>>)]
    /\ UNCHANGED <<syncVars, fetch, roleCall, users, employees, fin>>

\* the Jira import, phase 3
importJira ==
    /\ db.ops < MaxOps
    /\ \E jiraUsers \in JiraInputs :
        \E failing \in Failing(jiraUsers) :
          LET stored == storeDataInMongoDB(db.jiraData, "user_id", jiraUsers, 1, failing)
          IN  db' = [db EXCEPT !.jiraData = stored,
                               !.ops = @ + 1,
                               !.faults = IF failing > 0 THEN @ + 1 ELSE @,
                               !.last = [op |-> "jira", input |-> jiraUsers,
                                         sizes |-> <<Len(stored)>>,
                                         failed |-> failing > 0],
                               !.rerun = Rerun("jira", jiraUsers, <<Len(stored)>>)]
    /\ UNCHANGED <<syncVars, fetch, roleCall, users, employees, fin>>

InitImport ==
    /\ SyncAtRest
    /\ roleCall = NoRoleCall
    /\ users = <<>>
    /\ employees = [response |-> <<>>, atGet |-> <<>>, request |-> [pc |-> "none"]]
    /\ fin = NoFin
    /\ db = EmptyDb
    /\ fetch = NoFetch

NextImport ==
    \/ seedDatabase
    \/ insertCommit
    \/ importGitHub
    \/ importJira

ImportSpec == InitImport /\ [][NextImport]_vars

NoDuplicateKey(coll, field) ==
    \A i, j \in 1..Len(coll) : coll[i][field] = coll[j][field] => i = j

\* every collection written by natural-key upsert holds one record per key
OneRecordPerNaturalKey ==
    /\ NoDuplicateKey(store, "task_id")
    /\ NoDuplicateKey(db.users, "email")
    /\ NoDuplicateKey(db.commits, "raw_signature")
    /\ NoDuplicateKey(db.issues, "key")
    /\ NoDuplicateKey(db.github, "contributor_id")
    /\ NoDuplicateKey(db.jiraData, "user_id")

C14_SignatureUnique ==
    [][/\ NoDuplicateKey(db'.commits, "raw_signature")
       /\ (/\ db'.ops # db.ops
           /\ db'.last.op = "insertCommit"
           /\ \E j \in 1..Len(db.commits) :
                 db.commits[j].raw_signature = db'.last.input.raw_signature)
          => db'.commits = db.commits]_vars

\* after the seeder, an insert of a seeded signature under a new commit_id
\* was refused: the four seeded commits are all there is
C14_Witness ==
    /\ db.last.op = "insertCommit"
    /\ db.last.input = [commit_id |-> "sha555555", raw_signature |-> "alex-1"]
    /\ Len(db.commits) = 4
    /\ \E i \in 1..4 : db.commits[i] = [commit_id |-> "sha123456", raw_signature |-> "alex-1"]

\* the Persons whose hourly_rate is positive, by position in the collection
PositiveRates == { i \in 1..Len(users) : OrElse(users[i].hourly_rate, 0) > 0 }

\* C15: the average hourly rate the finance endpoints use is the mean of
\* hourly_rate over exactly the Persons whose rate is positive, is 75 when
\* there is none, and is a finite number; /overview returns it rounded.
C15_AverageRate ==
    /\ IsFiniteNum(avgHourlyRate)
    /\ IF PositiveRates = {}
       THEN avgHourlyRate = Int2Num(75)
       ELSE avgHourlyRate.n * Cardinality(PositiveRates) =
            avgHourlyRate.d * SumInt([i \in 1..Len(users) |->
                                        IF i \in PositiveRates THEN users[i].hourly_rate[1]
                                        ELSE 0])
    /\ fin.endpoint = "overview" =>
          /\ fin.response.summary.avg_hourly_rate = JsRound(avgHourlyRate)
          /\ IsFiniteNum(fin.response.summary.avg_hourly_rate)

\* /overview answered over a Person without a rate and a Person at 95: the
\* average is 95, the Person without a rate does not count
C15_Witness ==
    /\ fin.endpoint = "overview"
    /\ Len(users) = 2
    /\ users[1].hourly_rate = NULL
    /\ users[2].hourly_rate = <<95>>
    /\ fin.response.summary.avg_hourly_rate = Int2Num(95)

\* the sum of the estimates, a missing one counting as 0, times the mean of
\* the positive rates (75 without one), as a fraction
ExactBudget ==
    LET hours == SumInt([i \in 1..Len(fin.tasks) |->
                            IF fin.tasks[i].estimated_hours = NULL THEN 0
                            ELSE fin.tasks[i].estimated_hours[1]])
        rates == SumInt([i \in 1..Len(users) |->
                            IF i \in PositiveRates THEN users[i].hourly_rate[1] ELSE 0])
    IN  IF PositiveRates = {} THEN Num(hours * 75, 1)
        ELSE Num(hours * rates, Cardinality(PositiveRates))

\* C16 as stated: total_budgeted_cost of GET /overview equals exactly the sum
\* of the estimated hours (a missing estimate counting as 0) multiplied by
\* the average hourly rate.
C16_BudgetIsExactProduct ==
    fin.endpoint = "overview" =>
        LET cost == fin.response.summary.total_budgeted_cost
        IN  /\ IsFiniteNum(cost)
            /\ cost.n * ExactBudget.d = ExactBudget.n * cost.d

\* C16, amended: total_budgeted_cost of GET /overview is that product rounded
\* to the nearest whole number, a half rounding up; it is the product itself
\* whenever the product is whole.
C16_BudgetIsRoundedProduct ==
    fin.endpoint = "overview" =>
        LET cost == fin.response.summary.total_budgeted_cost
        IN  /\ IsFiniteNum(cost)
            /\ cost.d = 1
            /\ 2 * cost.n * ExactBudget.d <= 2 * ExactBudget.n + ExactBudget.d
            /\ 2 * ExactBudget.n + ExactBudget.d < 2 * (cost.n + 1) * ExactBudget.d

\* rates of 60 and 95, estimates of 3 hours and none: 3 * 77.5 = 232.5 is
\* returned as 233
C16_Witness ==
    /\ fin.endpoint = "overview"
    /\ ExactBudget = Num(465, 2)
    /\ \E i \in 1..Len(fin.tasks) : fin.tasks[i].estimated_hours = NULL
    /\ fin.response.summary.total_budgeted_cost = Int2Num(233)

C18_PerItemEffect ==
    [][\A p \in Procs :
          /\ run'[p].created = run[p].created + 1 =>
                LET i == IndexOf(store, CurrentTask(p).task_id)
                IN  /\ i > 0
                    /\ Len(store') = Len(store)
                    /\ store'[i].jira_issue_key = run[p].issue.key
                    /\ store'[i].jira_issue_id = run[p].issue.id
                    /\ store'[i].synced_to_jira = "true"
                    /\ store'[i].status = "allocated"
                    /\ store'[i].task_id = store[i].task_id
                    /\ store'[i].role_required = store[i].role_required
                    /\ store'[i].deadline = store[i].deadline
                    /\ \A j \in 1..Len(store) : j # i => store'[j] = store[j]
          /\ run'[p].failed = run[p].failed + 1 => store' = store]_vars

\* in one run a create call failed and another item was created: that item
\* is linked to its issue, synced and allocated, and an item is still as
\* imported
C18_Witness ==
    \E p \in Procs :
        /\ run[p].pc = "loop"
        /\ run[p].failed >= 1 /\ run[p].created >= 1
        /\ \E i \in 1..Len(store) : \E j \in 1..Len(jira) :
              /\ jira[j].recorded > 0
              /\ store[i].jira_issue_key = jira[j].key
              /\ store[i].synced_to_jira = "true"
              /\ store[i].status = "allocated"
        /\ \E i \in 1..Len(store) :
              store[i].jira_issue_key = NULL /\ store[i].status = "pending"

\* C19: a run issues a create call only for a work item that is, in the
\* store at that moment, pending and not synced, and changes the status only
\* of a pending item: an item in_progress, done or allocated is left alone.
C19_OnlyPendingUnsynced ==
    [][\A p \in Procs :
          /\ run'[p].calls = run[p].calls + 1 =>
                LET i == IndexOf(store, CurrentTask(p).task_id)
                IN  /\ store[i].status = "pending"
                    /\ store[i].synced_to_jira \in {"false", "absent"}
          /\ run'[p].created = run[p].created + 1 =>
                \A i \in 1..Len(store) :
                    store'[i].status # store[i].status => store[i].status = "pending"]_vars

\* the deadline of the work item a ticket of the response stands for
DeadlineOf(ticket) == store[IndexOf(store, ticket.task_id)].deadline

\* C20: in a POST /sync-tasks run the create calls are issued in ascending
\* order of deadline: of two items the run has called for, the one handled
\* first has no later deadline than the other.
C20_CallsByDeadline ==
    \A p \in Procs :
        run[p].kind = "route" =>
            /\ \A i, j \in 1..Len(run[p].tickets) :
                  i < j => DeadlineOf(run[p].tickets[i]) <= DeadlineOf(run[p].tickets[j])
            /\ \A i, j \in 1..Len(run[p].tasks) :
                  i < j => run[p].tasks[i].deadline <= run[p].tasks[j].deadline

\* a POST /sync-tasks run has called for two items in the order of their
\* deadlines, against the order in which the store holds them
C20_Witness ==
    \E p \in Procs :
        /\ run[p].kind = "route"
        /\ \E i, j \in 1..Len(run[p].tickets) :
              /\ i < j
              /\ DeadlineOf(run[p].tickets[i]) < DeadlineOf(run[p].tickets[j])
              /\ IndexOf(store, run[p].tickets[i].task_id) >
                 IndexOf(store, run[p].tickets[j].task_id)

(***************************************************************************)
(* Further claims about the Role Resolver                                  *)
(***************************************************************************)
RECURSIVE trimStart(_)
\* the string without its leading blanks
trimStart(s) == IF s # <<>> /\ Head(s) = " " THEN trimStart(Tail(s)) ELSE s

RECURSIVE trimEnd(_)
\* the string without its trailing blanks
trimEnd(s) ==
    IF s # <<>> /\ s[Len(s)] = " " THEN trimEnd(SubSeq(s, 1, Len(s) - 1)) ELSE s

\* C21: a role string that equals a table key up to letter case and leading
\* or trailing whitespace resolves to the person configured for that key.
C21_CaseAndBlanksIgnored ==
    (roleCall.pc = "returned" /\ ~IsNullish(roleCall.roleRequired)) =>
        \A e \in roleMap(roleCall.variant) :
            toLowerCase(trimEnd(trimStart(roleCall.roleRequired))) = e[1]
                => roleCall.result = findMember(roleCall.variant, e[2])

(***************************************************************************)
(* Further claims about the Sync Reconciler                                *)
(***************************************************************************)
\* C22: a POST /sync-tasks run that starts while one of the tracker settings
\* is missing answers at once with an error (success = false), has issued no
\* create call and leaves every work item and the tracker as they were.
C22_MissingSettingIsFatal ==
    [][\A p \in Procs :
          (run'[p] # run[p] /\ run'[p].kind = "route" /\ ~ConfigComplete) =>
              /\ run'[p].pc = "done"
              /\ run'[p].resp \in {"400", "500"}
              /\ run'[p].calls = 0
              /\ run'[p].created = 0
              /\ store' = store
              /\ jira' = jira]_vars

\* without JIRA_EMAIL, a run over a store with a pending unsynced item has
\* answered 400 and no issue exists
C22_Witness ==
    \E p \in Procs :
        /\ env.JIRA_EMAIL = "missing"
        /\ run[p].kind = "route" /\ run[p].pc = "done" /\ run[p].resp = "400"
        /\ pendingUnsynced(store) # {}
        /\ jira = <<>>

(***************************************************************************)
(* Bulk fetch: the pagination loops of the GitHub and the Jira import      *)
(***************************************************************************)
MaxPages == 3

\* What the remote can answer to the request of a page of commits: 200 with
\* an array (empty or not) and, before the last page, a link to the next
\* page; 403 or 404 with an error body, 403 with or without an exhausted
\* rate limit; or no answer the client accepts (the request throws).
CommitPageResponses(page) ==
    { [throws |-> FALSE, status |-> 200, remaining |-> "59", next |-> n,
       data |-> [isArray |-> TRUE, items |-> items, body |-> NULL]] :
         n \in (IF page < MaxPages THEN BOOLEAN ELSE {FALSE}),
         items \in { <<>>, <<[kind |-> "commit", page |-> page, status |-> 200]>> } }
    \cup
    { [throws |-> FALSE, status |-> s, remaining |-> r, next |-> FALSE,
       data |-> [isArray |-> FALSE, items |-> <<>>,
                 body |-> [kind |-> "errorBody", page |-> page, status |-> s]]] :
         s \in {403, 404}, r \in {"0", "59", "undefined"} }
    \cup
    { [throws |-> TRUE, status |-> 500, remaining |-> "undefined", next |-> FALSE,
       data |-> [isArray |-> FALSE, items |-> <<>>, body |-> NULL]] }

\* Array.prototype.concat: the elements of an array argument, or the
\* argument itself when it is no array
concat(list, data) ==
    IF data.isArray THEN list \o data.items ELSE Append(list, data.body)

rateLimited_Ignored(res) == FALSE

\* res.status === 403 && res.headers['x-ratelimit-remaining'] === '0'
rateLimited(res) == res.status = 403 /\ res.remaining = "0"

nextPage_Same(page) == page

\* page++
nextPage(page) == page + 1

\* fetchAllCommits after its first three statements
CommitsLoop ==
    [pc |-> "loop", page |-> 1, allCommits |-> <<>>, requested |-> <<>>,
     last |-> [throws |-> FALSE, status |-> 0, remaining |-> "undefined", next |-> FALSE],
     before |-> <<>>, result |-> <<>>]

\* what a request leaves in the history: the page asked for, the answer
\* without its body, the commits collected before it
Asked(loop, page, res) ==
    [loop EXCEPT !.requested = Append(@, page),
                 !.last = [throws |-> res.throws, status |-> res.status,
                           remaining |-> res.remaining, next |-> res.next],
                 !.before = loop.allCommits]

Returned(loop, list) == [loop EXCEPT !.pc = "returned", !.result = list]

\* one pass of the while loop of fetchAllCommits, up to the return when the
\* loop is left
fetchCommitsPage ==
    /\ fetch.gh.pc = "loop"
    /\ \E res \in CommitPageResponses(fetch.gh.page) :
        LET asked == Asked(fetch.gh, fetch.gh.page, res)
            commits == res.data
            all == concat(fetch.gh.allCommits, commits)
            hasMore == res.next /\ ~(commits.isArray /\ commits.items = <<>>)
        IN  fetch' = [fetch EXCEPT !.gh =
                IF res.throws THEN Returned(asked, <<>>)
                ELSE IF rateLimited(res) \/ res.status = 404
                     THEN Returned(asked, asked.allCommits)
                ELSE IF hasMore
                     THEN [asked EXCEPT !.allCommits = all, !.page = nextPage(@)]
                ELSE Returned([asked EXCEPT !.allCommits = all], all)]
    /\ UNCHANGED <<syncVars, roleCall, users, employees, fin, db>>

\* What the remote can answer to a search request: a page of issues and,
\* before the last page, the token of the next page; or the request throws.
IssuePageResponses(page) ==
    { [throws |-> FALSE, nextPageToken |-> t, issues |-> issues] :
         t \in {NULL} \cup (IF page < MaxPages THEN { <<page + 1>> } ELSE {}),
         issues \in { <<>>, <<[kind |-> "issue", page |-> page]>> } }
    \cup { [throws |-> TRUE, nextPageToken |-> NULL, issues |-> <<>>] }

\* fetchAllIssuesForProject after its first statements: no token yet
IssuesLoop ==
    [pc |-> "loop", nextPageToken |-> NULL, allIssues |-> <<>>, requested |-> <<>>,
     pageCount |-> 0, threw |-> FALSE, result |-> <<>>]

\* the page a request asks for: the first one without a token
PageOf(token) == IF token = NULL THEN 1 ELSE token[1]

\* one pass of the while loop of fetchAllIssuesForProject
fetchIssuesPage ==
    /\ fetch.jr.pc = "loop"
    /\ \E res \in IssuePageResponses(PageOf(fetch.jr.nextPageToken)) :
        LET asked == [fetch.jr EXCEPT !.requested = Append(@, PageOf(fetch.jr.nextPageToken))]
            all == fetch.jr.allIssues \o res.issues
        IN  fetch' = [fetch EXCEPT !.jr =
                IF res.throws THEN Returned([asked EXCEPT !.threw = TRUE], <<>>)
                ELSE IF res.nextPageToken # NULL
                     THEN [asked EXCEPT !.allIssues = all, !.pageCount = @ + 1,
                                        !.nextPageToken = res.nextPageToken]
                ELSE Returned([asked EXCEPT !.allIssues = all, !.pageCount = @ + 1], all)]
    /\ UNCHANGED <<syncVars, roleCall, users, employees, fin, db>>

InitFetch ==
    /\ SyncAtRest
    /\ roleCall = NoRoleCall
    /\ users = <<>>
    /\ employees = [response |-> <<>>, atGet |-> <<>>, request |-> [pc |-> "none"]]
    /\ fin = NoFin
    /\ db = EmptyDb
    /\ fetch = [gh |-> CommitsLoop, jr |-> IssuesLoop]

NextFetch ==
    \/ fetchCommitsPage
    \/ fetchIssuesPage

FetchSpec == InitFetch /\ [][NextFetch]_vars

\* every pass of a loop that can be made is made
FetchLiveSpec == FetchSpec /\ WF_vars(fetchCommitsPage) /\ WF_vars(fetchIssuesPage)

\* C23: when a page of commits is answered with 403 and
\* x-ratelimit-remaining = 0, the loop is left at once: the commits collected
\* from the earlier pages are returned as they were, and a loop that has
\* returned asks for nothing more.
C23_RateLimitStops ==
    /\ []((fetch.gh.last.status = 403 /\ fetch.gh.last.remaining = "0") =>
             /\ fetch.gh.pc = "returned"
             /\ fetch.gh.allCommits = fetch.gh.before
             /\ fetch.gh.result = fetch.gh.before)
    /\ [][fetch.gh.pc = "returned" => fetch'.gh = fetch.gh]_vars

\* the second page was answered with an exhausted rate limit: the commit of
\* the first page is what is returned
C23_Witness ==
    /\ fetch.gh.pc = "returned"
    /\ fetch.gh.requested = <<1, 2>>
    /\ fetch.gh.last.status = 403 /\ fetch.gh.last.remaining = "0"
    /\ fetch.gh.result = <<[kind |-> "commit", page |-> 1, status |-> 200]>>

\* C24: both pagination loops return, the pages are asked for one after
\* another and each page once, and a loop whose request threw returns the
\* empty list.
C24_LoopsTerminate ==
    /\ <>(fetch.gh.pc = "returned" /\ fetch.jr.pc = "returned")
    /\ [](/\ \A i \in 1..Len(fetch.gh.requested) : fetch.gh.requested[i] = i
          /\ \A i \in 1..Len(fetch.jr.requested) : fetch.jr.requested[i] = i
          /\ (fetch.gh.pc = "returned" /\ fetch.gh.last.throws) => fetch.gh.result = <<>>
          /\ (fetch.jr.pc = "returned" /\ fetch.jr.threw) => fetch.jr.result = <<>>)

\* the commits loop has returned after its last page, the issues loop after
\* a request that threw on the second page
C24_Witness ==
    /\ fetch.gh.pc = "returned"
    /\ fetch.gh.requested = <<1, 2, 3>>
    /\ ~fetch.gh.last.throws
    /\ fetch.jr.pc = "returned"
    /\ fetch.jr.threw
    /\ fetch.jr.requested = <<1, 2>>
    /\ fetch.jr.allIssues # <<>>
    /\ fetch.jr.result = <<>>

\* C29: every element of the list fetchAllCommits returns is a commit entry
\* of a page answered with 200; a page answered with 403 or 404 adds
\* nothing to it.
C29_OnlyCommitsOf200 ==
    fetch.gh.pc = "returned" =>
        \A i \in 1..Len(fetch.gh.result) :
            fetch.gh.result[i].kind = "commit" /\ fetch.gh.result[i].status = 200

(***************************************************************************)
(* Further claims about the Allocation Transform                           *)
(***************************************************************************)
\* C25: GET /employees gives every Person with a recorded number of years,
\* 0 included, the tier of the thresholds: 'Lead' from 10 years, 'Senior'
\* from 6, 'Junior' up to 2, 'Mid' between.
C25_TierByThresholds ==
    \A i \in 1..Len(employees.response) :
        LET years == employees.atGet[i].years_of_experience
            tier == employees.response[i].seniority
        IN  years # NULL =>
              /\ years[1] >= 10 => tier = "Lead"
              /\ (6 <= years[1] /\ years[1] < 10) => tier = "Senior"
              /\ years[1] <= 2 => tier = "Junior"
              /\ (2 < years[1] /\ years[1] < 6) => tier = "Mid"

Attempted(p) ==
    SelectSeq(SubSeq(run[p].tasks, 1, run[p].idx - 1),
              LAMBDA task : ~AlreadySynced(run[p].kind, task))

InitRetry == InitSync /\ ConfigComplete

NextRetry ==
    \/ counts.runs = 0 /\ runSeed
    \/ counts.runs = 0 /\ importTask
    \/ NoRunActive /\ StartRoute(1)
    \/ CreateIssue(1)
    \/ WriteBack(1)
    \/ Respond(1)

\* a request is made as long as one may be, and a handler goes on to its end
RetrySpec ==
    /\ InitRetry
    /\ [][NextRetry]_vars
    /\ WF_vars(NoRunActive /\ StartRoute(1))
    /\ WF_vars(CreateIssue(1))
    /\ WF_vars(WriteBack(1))
    /\ WF_vars(Respond(1))

TaskIds ==
    { tasksData[k].task_id : k \in 1..Len(tasksData) }
    \cup { <<"IMP", n>> : n \in 1..MaxImports }

IsPendingUnsyncedIn(coll, id) ==
    \E i \in 1..Len(coll) :
        /\ coll[i].task_id = id
        /\ coll[i].status = "pending"
        /\ coll[i].synced_to_jira \in {"false", "absent"}

IsPendingUnsynced(id) == IsPendingUnsyncedIn(store, id)

IsSyncedAllocated(id) ==
    \E i \in 1..Len(store) :
        /\ store[i].task_id = id
        /\ store[i].status = "allocated"
        /\ store[i].synced_to_jira = "true"
        /\ store[i].jira_issue_key # NULL

UpdatedOn(date) == { i \in 1..Len(fin.tasks) : fin.tasks[i].updatedAt = date }

\* C30: the day buckets of GET /daily-progress have distinct dates; in each,
\* completed counts the done tasks last updated that day, delayed the tasks
\* not done and past their deadline, on_track the other tasks not done, so
\* the three add up to the number of tasks last updated that day; and
\* totals.total_completed is the cumulative_completed of the last day.
C30_EachTaskCountedOnce ==
    fin.endpoint = "daily-progress" =>
        LET days == fin.response.daily_breakdown
        IN  /\ \A j, k \in 1..Len(days) : days[j].date = days[k].date => j = k
            /\ \A j \in 1..Len(days) :
                  LET on == UpdatedOn(days[j].date)
                      done == { i \in on : fin.tasks[i].status = "done" }
                      late == { i \in on \ done : fin.tasks[i].overdue }
                  IN  /\ days[j].completed = Int2Num(Cardinality(done))
                      /\ days[j].delayed = Int2Num(Cardinality(late))
                      /\ days[j].on_track = Int2Num(Cardinality((on \ done) \ late))
                      /\ days[j].completed.n + days[j].delayed.n + days[j].on_track.n
                            = Cardinality(on)
            /\ Len(days) > 0 =>
                  fin.response.totals.total_completed = days[Len(days)].cumulative_completed

\* a day on which a done task past its deadline and a task in progress past
\* its deadline were last updated: one completed, one delayed
C30_Witness ==
    /\ fin.endpoint = "daily-progress"
    /\ \E j \in 1..Len(fin.response.daily_breakdown) :
          LET day == fin.response.daily_breakdown[j]
          IN  /\ day.completed = Int2Num(1)
              /\ day.delayed = Int2Num(1)
              /\ day.on_track = Int2Num(0)
              /\ \E i \in UpdatedOn(day.date) :
                    fin.tasks[i].status = "done" /\ fin.tasks[i].overdue
    /\ fin.response.totals.total_completed = Int2Num(1)

====
